---- MODULE Spec2Model ----
(***************************************************************************)
(* A model of the ingestion-and-risk pipeline of the hyperliquid-terminal  *)
(* scripts:                                                                *)
(*   - HyperliquidAPI (api_client.py): the retrying POST of _make_request, *)
(*     load_market_meta and the name/id maps, the lookups, close();        *)
(*   - LargeTradesMonitor (large_trades.py): the bounded dedup memory;     *)
(*   - PositionsAtRiskMonitor (positions_at_risk_monitor.py): the          *)
(*     consecutive-alert counters;                                         *)
(*   - LiquidationsMonitor (liquidations_monitor.py and                    *)
(*     liquidations_monitor_advanced.py): the per-asset watermark;         *)
(*   - the calculators of liquid_positions_monitor.py,                     *)
(*     positions_at_risk_monitor.py and real_liquidations_monitor.py:      *)
(*     liquidation price, distance to liquidation, risk level.             *)
(* Each script is a program of its own, so each has its own specification  *)
(* over its own variables; the variables of the others stay as            *)
(* constructed.                                                            *)
(*                                                                         *)
(* Numbers: seconds are milliseconds (0.5 s = 500); prices, sizes and USD  *)
(* values are integers; a funding rate is an integer number of 1e-5.      *)
(* Comparisons of ratios are cross-multiplied, so no rounding is modelled. *)
(***************************************************************************)
EXTENDS Integers, Sequences, FiniteSets, TLC

VARIABLES
    \* ---- HyperliquidAPI (api_client.py)
    api_session,      \* self.session: "none" | "open" | "closed"
    api_pc,           \* position of _make_request: "idle" | "post" | "sleep" | "returned"
    api_max_retries,  \* the max_retries argument of the call in progress
    api_attempt,      \* the loop variable `attempt`
    api_last_error,   \* the local last_error
    api_result,       \* the dict the call returned
    api_posts,        \* observation: POSTs issued by the call in progress
    api_sleeps,       \* observation: the asyncio.sleep(wait_time) of the call, in ms
    api_log,          \* observation: what the endpoint answered to each POST
    api_asset_map,    \* self._asset_map: name -> id
    api_id_to_name,   \* self._id_to_name: id -> name
    api_universe_data,  \* self._universe_data: the last `meta` body stored
    api_meta,         \* position of load_market_meta: "none" (never called) |
                      \* "loading" (awaiting _make_request) | "loaded" | "fallback" |
                      \* "raised" (it left by an exception)
    api_lookup,       \* observation: the get_asset_id / get_asset_name call made by
                      \* the last step, if it was one
    \* ---- LargeTradesMonitor (large_trades.py)
    lt_seen,          \* self.seen: deque(maxlen=...), oldest key first
    lt_log,           \* observation: one entry per trade handed to _handle_trade
    \* ---- PositionsAtRiskMonitor (positions_at_risk_monitor.py)
    risk_pc,          \* position of run(): "start" | "loop"
    risk_asset_map,   \* self.asset_map: name -> id
    risk_id_to_name,  \* self.id_to_name: id -> name
    risk_margin_data, \* self.margin_data: id -> {maxLeverage, marginTiers}
    risk_oi_history,  \* self.open_interest_history: asset -> deque of oi_usd
    risk_consecutive, \* self.consecutive_alerts: alert key -> count
    risk_obs,         \* observation of the last cycle, per alert key
    risk_alerts,      \* self.risk_alerts: the list the summary counts
    \* ---- LiquidationsMonitor (liquidations_monitor.py, liquidations_monitor_advanced.py)
    lm_variant,       \* which of the two scripts runs: "basic" | "advanced"
    lm_next,          \* position in the loop of subscribe_to_trades: 0 is
                      \* get_current_prices, i is check_recent_liquidations of asset i
    lm_last_processed_time,  \* self.last_processed_time: asset -> time_ms
    lm_stats,         \* self.stats (advanced script)
    lm_log,           \* observation: the liquidation trades the last poll examined
    lm_req,           \* observation: the POSTs of the last step's request and how
                      \* the step ended
    \* ---- LargeTradesMonitor.run (large_trades.py): the WebSocket loop
    ws_pc,            \* position in run: "connect" (the top of `while True`, up to
                      \* the await of ws_connect) | "subscribe" (in _subscribe) |
                      \* "read" (awaiting the next message) | "handle" (in the for
                      \* loop over the trades of a message) | "retry_sleep" (in the
                      \* exception handler, awaiting the sleep) | "finished"
    ws_session,       \* self.session: "none" | "open" | "closed"
    ws_subs,          \* the coins of the subscribe messages sent on this connection
    ws_pending,       \* the trades of the current message not yet handled
    ws_quiet,         \* time.time() - self.last_print_ts > 2
    ws_last,          \* observation: what the last step did
    \* ---- the calculators: LiquidationRiskCalculator and _calculate_risk_level
    \* (liquid_positions_monitor.py), PositionRiskCalculator
    \* (positions_at_risk_monitor.py), RealLiquidationsMonitor
    \* (real_liquidations_monitor.py)
    calc_obs,         \* observation: the last call of a calculator and what it returned
    calc_prev         \* observation: the call before it

api_vars == <<api_session, api_pc, api_max_retries, api_attempt, api_last_error,
              api_result, api_posts, api_sleeps, api_log, api_asset_map,
              api_id_to_name, api_universe_data, api_meta, api_lookup>>

lt_vars == <<lt_seen, lt_log>>

ws_vars == <<ws_pc, ws_session, ws_subs, ws_pending, ws_quiet, ws_last>>

risk_vars == <<risk_pc, risk_asset_map, risk_id_to_name, risk_margin_data,
               risk_oi_history, risk_consecutive, risk_obs, risk_alerts>>

lm_vars == <<lm_variant, lm_next, lm_last_processed_time, lm_stats, lm_log, lm_req>>

calc_vars == <<calc_obs, calc_prev>>

vars == <<api_vars, lt_vars, ws_vars, risk_vars, lm_vars, calc_vars>>

None == "None"

Last(s) == s[Len(s)]

Range(s) == {s[i] : i \in 1..Len(s)}

Abs(x) == IF x < 0 THEN -x ELSE x

Max(a, b) == IF a >= b THEN a ELSE b

\* The largest element of a non-empty set of integers.
MaxOf(S) == CHOOSE x \in S : \A y \in S : y <= x

\* A dict with no entries.
EmptyDict == [x \in {} |-> 0]

\* dict.update: the entries of `new` are written over those of d.
DictUpdate(d, new) ==
    [k \in DOMAIN d \cup DOMAIN new |-> IF k \in DOMAIN new THEN new[k] ELSE d[k]]

\* str.upper() of the strings the model feeds; every other string fed is its
\* own upper case.
Upper(s) ==
    CASE s = "long" -> "LONG"
      [] s = "short" -> "SHORT"
      [] s = "btc" -> "BTC"
      [] s = "Eth" -> "ETH"
      [] s = "kPEPE" -> "KPEPE"
      [] OTHER -> s

----------------------------------------------------------------------------
(***************************************************************************)
(* HyperliquidAPI._make_request                                            *)
(***************************************************************************)

\* max_retries: int = 3
MAX_RETRIES_DEFAULT == 3

\* wait_time = 0.5 * (2 ** attempt), in milliseconds
BACKOFF_BASE_MS == 500

\* What one POST can end in: asyncio.TimeoutError, aiohttp.ClientError (transport
\* failure, or raise_for_status on a 4xx/5xx), any other Exception (response.json()
\* on a body that is not JSON), or a response whose JSON body was read.
PostOutcomes == {"timeout", "client_error", "exception", "ok"}

\* JSON bodies of a successful response: [] , {} , and a non-empty document.
Bodies == {"EMPTY_LIST", "EMPTY_OBJECT", "DATA"}

\* The values max_retries is called with.
RetryArgs == 0..MAX_RETRIES_DEFAULT

\* last_error = f"Timeout: ..." / f"Client error: ..." / f"Unexpected error: ..."
ErrorText(outcome) ==
    CASE outcome = "timeout" -> "Timeout"
      [] outcome = "client_error" -> "Client error"
      [] OTHER -> "Unexpected error"

\* A loop that makes one attempt too many: range(max_retries + 1).
RetryRange_OneMore(max_retries) == 0..max_retries

\* for attempt in range(max_retries)
RetryRange(max_retries) == 0..(max_retries - 1)

\* if attempt < max_retries - 1
ShouldSleep(attempt, max_retries) == attempt < max_retries - 1

RECURSIVE Pow2(_)
Pow2(n) == IF n <= 0 THEN 1 ELSE 2 * Pow2(n - 1)

\* wait_time = 0.5 * (2 ** attempt)
WaitTime(attempt) == BACKOFF_BASE_MS * Pow2(attempt)

SuccessResult(data) == [success |-> TRUE, data |-> data, error |-> None]

\* return {"success": False, "error": last_error or "Unknown error"}
FailureResult(last_error) ==
    [success |-> FALSE, data |-> None,
     error |-> IF last_error = None THEN "Unknown error" ELSE last_error]

NoResult == [success |-> FALSE, data |-> None, error |-> None]

\* _ensure_session: a new ClientSession when there is none or it is closed
EnsureSession(session) == IF session \in {"none", "closed"} THEN "open" ELSE session

\* The for loop moves to its next iteration, or falls out of the loop to the
\* final return when the range is used up.
NextIteration(attempt, last_error) ==
    IF attempt + 1 \in RetryRange(api_max_retries)
    THEN /\ api_pc' = "post"
         /\ api_attempt' = attempt + 1
         /\ api_result' = api_result
    ELSE /\ api_pc' = "returned"
         /\ api_attempt' = attempt
         /\ api_result' = FailureResult(last_error)

\* No lookup was made by the step.
NoLookup == [fn |-> "none", arg |-> None, out |-> None]

\* _make_request(endpoint, payload, max_retries) is entered.
MakeRequest(max_retries) ==
    /\ api_pc \in {"idle", "returned"}
    /\ api_meta # "loading"
    /\ api_session' = EnsureSession(api_session)
    /\ api_max_retries' = max_retries
    /\ api_last_error' = None
    /\ api_posts' = 0
    /\ api_sleeps' = <<>>
    /\ api_log' = <<>>
    /\ api_attempt' = 0
    /\ IF 0 \in RetryRange(max_retries)
       THEN api_pc' = "post" /\ api_result' = NoResult
       ELSE api_pc' = "returned" /\ api_result' = FailureResult(None)
    /\ api_lookup' = NoLookup
    /\ UNCHANGED <<api_asset_map, api_id_to_name, api_universe_data>>

\* A caller other than load_market_meta (get_l2_book, get_trades, ...) awaits
\* _make_request.
DirectRequest(max_retries) ==
    /\ MakeRequest(max_retries)
    /\ UNCHANGED api_meta

\* A client that takes an empty body for a failure and retries it.
PostAttempt_RetryEmpty(outcome, body) ==
    /\ api_pc = "post"
    /\ api_posts' = api_posts + 1
    /\ api_log' = Append(api_log, [outcome |-> outcome,
                                   body |-> IF outcome = "ok" THEN body ELSE None])
    /\ IF outcome = "ok" /\ body = "DATA"
       THEN /\ api_result' = SuccessResult(body)
            /\ api_pc' = "returned"
            /\ UNCHANGED <<api_attempt, api_last_error>>
       ELSE /\ api_last_error' = ErrorText(outcome)
            /\ IF ShouldSleep(api_attempt, api_max_retries)
               THEN /\ api_pc' = "sleep"
                    /\ UNCHANGED <<api_attempt, api_result>>
               ELSE NextIteration(api_attempt, ErrorText(outcome))
    /\ UNCHANGED <<api_session, api_max_retries, api_sleeps>>
    /\ api_lookup' = NoLookup
    /\ UNCHANGED <<api_asset_map, api_id_to_name, api_universe_data, api_meta>>

\* One pass through the try block: the POST and what the endpoint answers.
PostAttempt(outcome, body) ==
    /\ api_pc = "post"
    /\ api_posts' = api_posts + 1
    /\ api_log' = Append(api_log, [outcome |-> outcome,
                                   body |-> IF outcome = "ok" THEN body ELSE None])
    /\ IF outcome = "ok"
       THEN /\ api_result' = SuccessResult(body)
            /\ api_pc' = "returned"
            /\ UNCHANGED <<api_attempt, api_last_error>>
       ELSE /\ api_last_error' = ErrorText(outcome)
            /\ IF ShouldSleep(api_attempt, api_max_retries)
               THEN /\ api_pc' = "sleep"
                    /\ UNCHANGED <<api_attempt, api_result>>
               ELSE NextIteration(api_attempt, ErrorText(outcome))
    /\ UNCHANGED <<api_session, api_max_retries, api_sleeps>>
    /\ api_lookup' = NoLookup
    /\ UNCHANGED <<api_asset_map, api_id_to_name, api_universe_data, api_meta>>

\* await asyncio.sleep(wait_time) completes and the loop goes on.
BackoffSleep ==
    /\ api_pc = "sleep"
    /\ api_sleeps' = Append(api_sleeps, WaitTime(api_attempt))
    /\ NextIteration(api_attempt, api_last_error)
    /\ UNCHANGED <<api_session, api_max_retries, api_last_error, api_posts, api_log>>
    /\ api_lookup' = NoLookup
    /\ UNCHANGED <<api_asset_map, api_id_to_name, api_universe_data, api_meta>>

\* close(): closes an open session; a no-op otherwise.
ApiClose ==
    /\ api_pc \in {"idle", "returned"}
    /\ api_meta # "loading"
    /\ api_session = "open"
    /\ api_session' = "closed"
    /\ UNCHANGED <<api_pc, api_max_retries, api_attempt, api_last_error,
                   api_result, api_posts, api_sleeps, api_log>>
    /\ api_lookup' = NoLookup
    /\ UNCHANGED <<api_asset_map, api_id_to_name, api_universe_data, api_meta>>

\* Bodies of a `meta` answer that is a non-empty document: data["universe"] is
\* one of these lists of asset names. None stands for an entry that has no
\* "name" key.
ApiUniverses == {<<"BTC", "ETH", "SOL">>, <<"SOL", "kPEPE">>, <<"BTC", None, "ETH">>}

\* The entries of the universe that enumerate() reaches before
\* asset_info["name"] raises KeyError: all of them when every entry has a name.
RECURSIVE NamedPrefix(_)
NamedPrefix(universe) ==
    IF universe = <<>> \/ Head(universe) = None THEN <<>>
    ELSE <<Head(universe)>> \o NamedPrefix(Tail(universe))

\* No `meta` body was stored.
NoUniverseData == [body |-> None, universe |-> <<>>]

\* The entries `for asset_id, asset_info in enumerate(universe)` writes into
\* _asset_map (a repeated name keeps its last id) and into _id_to_name.
EnumeratedAssetMap(universe) ==
    [n \in Range(universe) |-> MaxOf({i \in 0..(Len(universe) - 1) : universe[i + 1] = n})]

EnumeratedIdToName(universe) ==
    [i \in 0..(Len(universe) - 1) |-> universe[i + 1]]

\* The fallback entries of load_market_meta: BTC 0, ETH 1, ARB 2.
FallbackUniverse == <<"BTC", "ETH", "ARB">>

\* A loader that starts from empty dicts.
StoreEntries_Fresh(d, new) == new

\* self._asset_map[...] = ... / self._id_to_name[...] = ...: the entries are
\* written into the dicts the client already holds.
StoreEntries(d, new) == DictUpdate(d, new)

\* load_market_meta is called: it awaits _make_request("/info", {"type": "meta"}).
LoadMarketMeta ==
    /\ MakeRequest(MAX_RETRIES_DEFAULT)
    /\ api_meta' = "loading"

\* _make_request has returned to load_market_meta, which runs to its end. The
\* universe is that of the body when the body is a non-empty document; {} has
\* no "universe" key, and [] has no .get, which raises AttributeError after
\* self._universe_data was assigned. An entry without a name raises KeyError
\* after the entries before it were written.
LoadMarketMetaReturn(universe) ==
    /\ api_meta = "loading"
    /\ api_pc = "returned"
    /\ IF api_result.success
       THEN IF api_result.data = "EMPTY_LIST"
            THEN /\ api_universe_data' = [body |-> api_result.data, universe |-> <<>>]
                 /\ api_meta' = "raised"
                 /\ UNCHANGED <<api_asset_map, api_id_to_name>>
            ELSE \E u \in {IF api_result.data = "DATA" THEN universe ELSE <<>>} :
                 /\ api_universe_data' = [body |-> api_result.data, universe |-> u]
                 /\ api_asset_map' =
                        StoreEntries(api_asset_map, EnumeratedAssetMap(NamedPrefix(u)))
                 /\ api_id_to_name' =
                        StoreEntries(api_id_to_name, EnumeratedIdToName(NamedPrefix(u)))
                 /\ api_meta' = IF NamedPrefix(u) = u THEN "loaded" ELSE "raised"
       ELSE /\ api_asset_map' =
                   StoreEntries(api_asset_map, EnumeratedAssetMap(FallbackUniverse))
            /\ api_id_to_name' =
                   StoreEntries(api_id_to_name, EnumeratedIdToName(FallbackUniverse))
            /\ api_meta' = "fallback"
            /\ UNCHANGED api_universe_data
    /\ api_lookup' = NoLookup
    /\ UNCHANGED <<api_session, api_pc, api_max_retries, api_attempt, api_last_error,
                   api_result, api_posts, api_sleeps, api_log>>

\* Arguments of the lookups.
Tickers == {"BTC", "btc", "kPEPE", "DOGE"}

AssetIds == {0, 2, 7}

\* dict.get(key): the value, or None
DictGet(d, key, none) ==
    IF key \in DOMAIN d THEN [isNone |-> FALSE, val |-> d[key]]
    ELSE [isNone |-> TRUE, val |-> none]

\* A lookup by the name as given.
AssetIdOf_AsGiven(ticker) == DictGet(api_asset_map, ticker, 0)

\* get_asset_id: self._asset_map.get(ticker.upper())
AssetIdOf(ticker) == DictGet(api_asset_map, Upper(ticker), 0)

\* get_asset_name: self._id_to_name.get(asset_id)
AssetNameOf(asset_id) == DictGet(api_id_to_name, asset_id, None)

\* get_asset_id(ticker) is called.
GetAssetId(ticker) ==
    /\ api_pc \in {"idle", "returned"}
    /\ api_meta # "loading"
    /\ api_lookup' = [fn |-> "get_asset_id", arg |-> ticker, out |-> AssetIdOf(ticker)]
    /\ UNCHANGED <<api_session, api_pc, api_max_retries, api_attempt, api_last_error,
                   api_result, api_posts, api_sleeps, api_log, api_asset_map,
                   api_id_to_name, api_universe_data, api_meta>>

\* get_asset_name(asset_id) is called.
GetAssetName(asset_id) ==
    /\ api_pc \in {"idle", "returned"}
    /\ api_meta # "loading"
    /\ api_lookup' = [fn |-> "get_asset_name", arg |-> asset_id,
                      out |-> AssetNameOf(asset_id)]
    /\ UNCHANGED <<api_session, api_pc, api_max_retries, api_attempt, api_last_error,
                   api_result, api_posts, api_sleeps, api_log, api_asset_map,
                   api_id_to_name, api_universe_data, api_meta>>

ApiInit ==
    /\ api_session = "none"
    /\ api_pc = "idle"
    /\ api_max_retries = MAX_RETRIES_DEFAULT
    /\ api_attempt = 0
    /\ api_last_error = None
    /\ api_result = NoResult
    /\ api_posts = 0
    /\ api_sleeps = <<>>
    /\ api_log = <<>>
    /\ api_asset_map = EmptyDict
    /\ api_id_to_name = EmptyDict
    /\ api_universe_data = NoUniverseData
    /\ api_meta = "none"
    /\ api_lookup = NoLookup

ApiNext ==
    \/ \E m \in RetryArgs : DirectRequest(m)
    \/ \E o \in PostOutcomes, b \in Bodies : PostAttempt(o, b)
    \/ BackoffSleep
    \/ ApiClose
    \/ LoadMarketMeta
    \/ \E u \in ApiUniverses : LoadMarketMetaReturn(u)
    \/ \E t \in Tickers : GetAssetId(t)
    \/ \E i \in AssetIds : GetAssetName(i)

----------------------------------------------------------------------------
(***************************************************************************)
(* LargeTradesMonitor: _trade_key, _handle_trade and the dedup memory      *)
(***************************************************************************)

\* self.seen = deque(maxlen=5000). The capacity is scaled down so that the
\* memory fills and evicts within the trades fed.
SeenMaxLen == 3

\* How many trades are handed to _handle_trade in one run of the model.
MaxDeliveries == 5

\* MIN_TRADE_NOTIONAL_USD = 100_000
MIN_TRADE_NOTIONAL_USD == 100000

\* Trade payloads of the feed. tid is written as its str(), with "" for a tid
\* that is missing, None or 0 (`tid or hash` treats them alike); hash likewise.
\* px and sz are the JSON strings of the feed.
Trades ==
    { [coin |-> "BTC", side |-> "B", px |-> "100000", sz |-> "2", time |-> 1000,
       tid |-> "1", hash |-> "0xa"],
      [coin |-> "BTC", side |-> "B", px |-> "100000", sz |-> "2", time |-> 1000,
       tid |-> "", hash |-> "1"],
      [coin |-> "BTC", side |-> "B", px |-> "100000", sz |-> "2", time |-> 1000,
       tid |-> "2", hash |-> "0xa"],
      [coin |-> "ETH", side |-> "A", px |-> "3000", sz |-> "50", time |-> 1000,
       tid |-> "", hash |-> "0xb"],
      [coin |-> "ETH", side |-> "A", px |-> "3000", sz |-> "50", time |-> 2000,
       tid |-> "", hash |-> "0xb"],
      [coin |-> "SOL", side |-> "sell", px |-> "150", sz |-> "2", time |-> 1000,
       tid |-> "3", hash |-> ""],
      [coin |-> "SOL", side |-> "buy", px |-> "100000", sz |-> "n/a", time |-> 1000,
       tid |-> "", hash |-> ""] }

\* float(v) of the strings above; every other string raises.
FloatOf == [v \in {"100000", "50000", "3000", "150", "50", "2", "1"} |->
               CASE v = "100000" -> 100000
                 [] v = "50000" -> 50000
                 [] v = "1" -> 1
                 [] v = "3000" -> 3000
                 [] v = "150" -> 150
                 [] v = "50" -> 50
                 [] OTHER -> 2]

\* _safe_float: float(v), or None when it raises
SafeFloat(v) ==
    IF v \in DOMAIN FloatOf THEN [isNone |-> FALSE, val |-> FloatOf[v]]
    ELSE [isNone |-> TRUE, val |-> 0]

\* _trade_key: f"{coin}:{tid or ''}:{t}:{side}:{px}:{sz}", tid = tid or hash.
\* The fields are kept apart as a tuple; str() is one-to-one on the values fed.
TradeKey(trade) ==
    <<trade.coin, IF trade.tid # "" THEN trade.tid ELSE trade.hash,
      trade.time, trade.side, trade.px, trade.sz>>

\* _side_label
SideLabel(raw_side) ==
    IF raw_side \in {"B", "b", "BUY", "buy", "LONG", "long"} THEN "LONG" ELSE "SHORT"

\* key in self.seen
InSeen(key) == \E i \in 1..Len(lt_seen) : lt_seen[i] = key

\* A memory that never remembers.
DequeAppend_Forget(q, key) == q

\* A memory without a capacity.
DequeAppend_Unbounded(q, key) == Append(q, key)

\* A memory that evicts one key too early.
DequeAppend_OneShort(q, key) ==
    IF Len(q) >= SeenMaxLen - 1 THEN Append(Tail(q), key) ELSE Append(q, key)

\* deque.append on a deque with maxlen: a full deque drops its oldest entry.
DequeAppend(q, key) ==
    IF SeenMaxLen = 0 THEN <<>>
    ELSE IF Len(q) >= SeenMaxLen THEN Append(Tail(q), key)
    ELSE Append(q, key)

\* _handle_trade(trade)
HandleTrade(trade) ==
    LET key == TradeKey(trade)
        px == SafeFloat(trade.px)
        sz == SafeFloat(trade.sz)
        printed == /\ ~px.isNone
                   /\ ~sz.isNone
                   /\ px.val * sz.val >= MIN_TRADE_NOTIONAL_USD
    IN  /\ Len(lt_log) < MaxDeliveries
        /\ IF InSeen(key)
           THEN /\ lt_log' = Append(lt_log, [trade |-> trade, key |-> key,
                                             passed |-> FALSE, printed |-> FALSE,
                                             side |-> None])
                /\ UNCHANGED lt_seen
           ELSE /\ lt_seen' = DequeAppend(lt_seen, key)
                /\ lt_log' = Append(lt_log, [trade |-> trade, key |-> key,
                                             passed |-> TRUE, printed |-> printed,
                                             side |-> IF printed
                                                      THEN SideLabel(trade.side)
                                                      ELSE None])

LtInit ==
    /\ lt_seen = <<>>
    /\ lt_log = <<>>

LtNext == \E t \in Trades : HandleTrade(t)

----------------------------------------------------------------------------
(***************************************************************************)
(* PositionsAtRiskMonitor: metadata, risk analysis, consecutive alerts     *)
(***************************************************************************)

\* positions_at_risk_config.py
MONITORED_ASSETS == <<"BTC", "ETH", "SOL">>

MIN_OPEN_INTEREST_USD == 1000000

\* OPEN_INTEREST_CHANGE_THRESHOLD = 0.15, in percent
OPEN_INTEREST_CHANGE_THRESHOLD_PCT == 15

\* LARGE_POSITION_THRESHOLD = 0.05, in percent
LARGE_POSITION_THRESHOLD_PCT == 5

MARGIN_RISK_THRESHOLD == 15

\* LIQUIDATION_BUFFER_PERCENT = 5.0
LIQUIDATION_BUFFER_PERCENT == 5

ALERT_CONSECUTIVE_COUNT == 2

ENABLE_ALERTS == TRUE

\* deque(maxlen=10) of open_interest_history, scaled down: the analysis reads
\* only the last two entries and the length.
OiHistoryMaxLen == 3

RiskTypes == {"OI_CHANGE", "LIQUIDATION_RISK", "FUNDING_PRESSURE"}

\* alert_key = f"{asset}_{risk_factor['type']}"
AlertKey(asset, type) == <<asset, type>>

AlertKeys == {AlertKey(a, t) : a \in Range(MONITORED_ASSETS), t \in RiskTypes}

\* Answers to {"type": "meta"}: the request fails, or data["universe"] is one of
\* these lists.
RiskUniverses ==
    { <<[name |-> "BTC", maxLeverage |-> 200]>>,
      <<[name |-> "ETH", maxLeverage |-> 25], [name |-> "BTC", maxLeverage |-> 40]>> }

RiskMetaResponses ==
    {[success |-> FALSE, universe |-> <<>>]}
        \cup {[success |-> TRUE, universe |-> u] : u \in RiskUniverses}

\* Asset contexts of {"type": "metaAndAssetCtxs"}: markPx, openInterest and
\* funding (in 1e-5). Open interest of 20000, 24000 and 30000 at a mark price of
\* 100 moves by 16.7% to 50% between polls.
RiskContexts ==
    {[markPx |-> 0, openInterest |-> 20000, funding |-> 200],
     [markPx |-> 100, openInterest |-> 5000, funding |-> 200]}
        \cup [markPx : {100}, openInterest : {20000, 24000, 30000}, funding : {0, 50, 200}]

\* The contexts fed for the second asset of the universe: steady open interest.
RiskContextsSecond ==
    [markPx : {100}, openInterest : {20000}, funding : {0, 200}]

\* Answers to metaAndAssetCtxs: the request fails, the body does not parse as
\* [meta, contexts] with numeric fields, or it carries a list of contexts.
RiskCtxResponses ==
    {[success |-> FALSE, malformed |-> FALSE, ctxs |-> <<>>],
     [success |-> TRUE, malformed |-> TRUE, ctxs |-> <<>>]}
        \cup {[success |-> TRUE, malformed |-> FALSE, ctxs |-> c] :
                 c \in {<<>>} \cup {<<x>> : x \in RiskContexts}
                         \cup {<<x, y>> : x \in RiskContexts, y \in RiskContextsSecond}}

\* _load_margin_details: margin tiers estimated from the max leverage
MarginTiers(maxLeverage) ==
    IF maxLeverage >= 40
    THEN <<[lowerBound |-> 0, maxLeverage |-> 40], [lowerBound |-> 50000000, maxLeverage |-> 20]>>
    ELSE IF maxLeverage >= 25
    THEN <<[lowerBound |-> 0, maxLeverage |-> 25], [lowerBound |-> 100000000, maxLeverage |-> 15]>>
    ELSE IF maxLeverage >= 20
    THEN <<[lowerBound |-> 0, maxLeverage |-> 20], [lowerBound |-> 40000000, maxLeverage |-> 10]>>
    ELSE <<[lowerBound |-> 0, maxLeverage |-> maxLeverage]>>

\* load_market_metadata (with _load_margin_details): enumerate(universe) fills
\* the three dicts; a failed request leaves them as they are.
RiskLoadMarketMetadata(meta) ==
    /\ risk_pc = "start"
    /\ risk_pc' = "loop"
    /\ IF meta.success
       THEN LET u == meta.universe
                ids == 0..(Len(u) - 1)
                names == {u[i].name : i \in 1..Len(u)}
            IN  /\ risk_asset_map' =
                       [n \in names |-> MaxOf({i \in ids : u[i + 1].name = n})]
                /\ risk_id_to_name' = [i \in ids |-> u[i + 1].name]
                /\ risk_margin_data' =
                       [i \in ids |-> [maxLeverage |-> u[i + 1].maxLeverage,
                                       marginTiers |-> MarginTiers(u[i + 1].maxLeverage)]]
       ELSE UNCHANGED <<risk_asset_map, risk_id_to_name, risk_margin_data>>
    /\ UNCHANGED <<risk_oi_history, risk_consecutive, risk_obs, risk_alerts>>

\* get_market_data: {} on a failed request or a parse error, else one entry per
\* context whose position is a loaded id of a monitored asset.
GetMarketData(resp) ==
    IF ~resp.success \/ resp.malformed THEN EmptyDict
    ELSE LET ids == {i \in 0..(Len(resp.ctxs) - 1) :
                        /\ i < Cardinality(DOMAIN risk_id_to_name)
                        /\ i \in DOMAIN risk_id_to_name
                        /\ risk_id_to_name[i] \in Range(MONITORED_ASSETS)}
             names == {risk_id_to_name[i] : i \in ids}
         IN  [n \in names |->
                 LET c == resp.ctxs[MaxOf({i \in ids : risk_id_to_name[i] = n}) + 1]
                 IN  [markPrice |-> c.markPx, openInterest |-> c.openInterest,
                      fundingRate |-> c.funding]]

\* A ratio num/den with den > 0.
Rat(num, den) == [num |-> num, den |-> den]

\* PositionRiskCalculator.calculate_liquidation_price with the default
\* maintenance_margin_rate = 0.004 = 4/1000; position_size is a ratio.
RiskCalculateLiquidationPrice(entry_price, leverage, position_size, side) ==
    IF leverage <= 0 \/ position_size.num <= 0 \/ entry_price <= 0 THEN Rat(0, 1)
    ELSE IF side = "LONG" THEN Rat(entry_price * (1000 - 4 * leverage), 996)
    ELSE Rat(entry_price * (1000 + 4 * leverage), 1004)

\* PositionRiskCalculator.calculate_distance_to_liquidation, in percent
RiskCalculateDistanceToLiquidation(current_price, liquidation_price, side) ==
    IF current_price <= 0 \/ liquidation_price.num <= 0
    THEN [inf |-> TRUE, num |-> 0, den |-> 1]
    ELSE IF side = "LONG"
    THEN [inf |-> FALSE,
          num |-> (current_price * liquidation_price.den - liquidation_price.num) * 100,
          den |-> liquidation_price.num]
    ELSE [inf |-> FALSE,
          num |-> (liquidation_price.num - current_price * liquidation_price.den) * 100,
          den |-> current_price * liquidation_price.den]

\* distance <= percent
DistanceAtMost(distance, percent) ==
    ~distance.inf /\ distance.num <= percent * distance.den

\* `asset_id == asset`: an int key of margin_data never equals a str.
IdEqualsName(asset_id, asset) == FALSE

\* asset in self.margin_data
InMarginData(asset) == \E k \in DOMAIN risk_margin_data : IdEqualsName(k, asset)

\* The OI_CHANGE part of analyze_risk_factors, on the history after the append.
OiChangeFactors(history) ==
    IF Len(history) >= 3
    THEN LET current_oi == history[Len(history)]
             previous_oi == history[Len(history) - 1]
             change == Abs(current_oi - previous_oi) * 100
         IN  IF previous_oi > 0 /\ change >= OPEN_INTEREST_CHANGE_THRESHOLD_PCT * previous_oi
             THEN <<[type |-> "OI_CHANGE", side |-> None,
                     severity |-> IF change > 25 * previous_oi THEN "HIGH" ELSE "MEDIUM"]>>
             ELSE <<>>
    ELSE <<>>

\* The LIQUIDATION_RISK part of analyze_risk_factors.
LiquidationRiskFactors(asset, current_price, oi_usd) ==
    IF ~InMarginData(asset) THEN <<>>
    ELSE LET margin_info ==
                 risk_margin_data[CHOOSE k \in DOMAIN risk_margin_data : IdEqualsName(k, asset)]
             max_leverage == margin_info.maxLeverage
             \* large_position_value = oi_usd * LARGE_POSITION_THRESHOLD
             large_position_value == Rat(oi_usd * LARGE_POSITION_THRESHOLD_PCT, 100)
             position_size == Rat(large_position_value.num,
                                  large_position_value.den * current_price)
             long_liq_price ==
                 RiskCalculateLiquidationPrice(current_price, max_leverage, position_size, "LONG")
             short_liq_price ==
                 RiskCalculateLiquidationPrice(current_price, max_leverage, position_size, "SHORT")
             long_distance ==
                 RiskCalculateDistanceToLiquidation(current_price, long_liq_price, "LONG")
             short_distance ==
                 RiskCalculateDistanceToLiquidation(current_price, short_liq_price, "SHORT")
             long_factor ==
                 IF DistanceAtMost(long_distance, LIQUIDATION_BUFFER_PERCENT)
                 THEN <<[type |-> "LIQUIDATION_RISK", side |-> "LONG",
                         severity |-> IF DistanceAtMost(long_distance, 2)
                                      THEN "CRITICAL" ELSE "HIGH"]>>
                 ELSE <<>>
             short_factor ==
                 IF DistanceAtMost(short_distance, LIQUIDATION_BUFFER_PERCENT)
                 THEN <<[type |-> "LIQUIDATION_RISK", side |-> "SHORT",
                         severity |-> IF DistanceAtMost(short_distance, 2)
                                      THEN "CRITICAL" ELSE "HIGH"]>>
                 ELSE <<>>
         IN  IF /\ max_leverage >= MARGIN_RISK_THRESHOLD * 10
                /\ large_position_value.num >= 100000 * large_position_value.den
             THEN long_factor \o short_factor
             ELSE <<>>

\* The FUNDING_PRESSURE part: abs(fundingRate) > 0.0001, HIGH above 0.001.
FundingFactors(fundingRate) ==
    IF Abs(fundingRate) > 10
    THEN <<[type |-> "FUNDING_PRESSURE", side |-> None,
            severity |-> IF Abs(fundingRate) > 100 THEN "HIGH" ELSE "MEDIUM"]>>
    ELSE <<>>

\* The deque of one asset's open interest after append(oi_usd).
OiHistoryAppend(history, oi_usd) ==
    IF Len(history) >= OiHistoryMaxLen THEN Append(Tail(history), oi_usd)
    ELSE Append(history, oi_usd)

\* analyze_risk_factors(asset, market_data): the risk factors it returns and the
\* asset's open-interest history as it leaves it.
AnalyzeRiskFactors(asset, market_data, history) ==
    IF asset \notin DOMAIN market_data \/ asset \notin DOMAIN risk_asset_map
    THEN [factors |-> <<>>, history |-> history]
    ELSE LET data == market_data[asset]
             current_price == data.markPrice
             open_interest == data.openInterest
             oi_usd == open_interest * current_price
         IN  IF current_price <= 0 \/ open_interest <= 0 \/ oi_usd < MIN_OPEN_INTEREST_USD
             THEN [factors |-> <<>>, history |-> history]
             ELSE LET appended == OiHistoryAppend(history, oi_usd)
                  IN  [factors |-> OiChangeFactors(appended)
                                      \o LiquidationRiskFactors(asset, current_price, oi_usd)
                                      \o FundingFactors(data.fundingRate),
                       history |-> appended]

\* A debouncer that does not reset the counter after alerting.
DebounceStep_NoReset(count, severity) ==
    IF severity \in {"CRITICAL", "HIGH"}
    THEN IF count + 1 >= ALERT_CONSECUTIVE_COUNT
         THEN [count |-> count + 1, fired |-> IF ENABLE_ALERTS THEN 1 ELSE 0]
         ELSE [count |-> count + 1, fired |-> 0]
    ELSE [count |-> 0, fired |-> 0]

\* The body of `for risk_factor in risk_factors` on one key's counter: the new
\* count, and whether display_risk_alert was called.
DebounceStep(count, severity) ==
    IF severity \in {"CRITICAL", "HIGH"}
    THEN IF count + 1 >= ALERT_CONSECUTIVE_COUNT
         THEN [count |-> 0, fired |-> IF ENABLE_ALERTS THEN 1 ELSE 0]
         ELSE [count |-> count + 1, fired |-> 0]
    ELSE [count |-> 0, fired |-> 0]

\* `for risk_factor in risk_factors` for one asset, from counters c and the
\* cycle's alert counts f.
RECURSIVE DebounceFactors(_, _, _, _)
DebounceFactors(asset, factors, c, f) ==
    IF factors = <<>> THEN [consecutive |-> c, fired |-> f]
    ELSE LET key == AlertKey(asset, Head(factors).type)
             step == DebounceStep(c[key], Head(factors).severity)
         IN  DebounceFactors(asset, Tail(factors),
                             [c EXCEPT ![key] = step.count],
                             [f EXCEPT ![key] = @ + step.fired])

\* analyze_risk_factors of every monitored asset, in the order of the loop
\* (the analysis of one asset reads and writes that asset's history only).
RECURSIVE AnalyzeAll(_, _)
AnalyzeAll(i, market_data) ==
    IF i = 0 THEN <<>>
    ELSE Append(AnalyzeAll(i - 1, market_data),
                AnalyzeRiskFactors(MONITORED_ASSETS[i], market_data,
                                   risk_oi_history[MONITORED_ASSETS[i]]))

\* `for asset in MONITORED_ASSETS` from position i on.
RECURSIVE ScanAssets(_, _, _, _)
ScanAssets(i, analyses, c, f) ==
    IF i > Len(MONITORED_ASSETS) THEN [consecutive |-> c, fired |-> f]
    ELSE LET done == DebounceFactors(MONITORED_ASSETS[i], analyses[i].factors, c, f)
         IN  ScanAssets(i + 1, analyses, done.consecutive, done.fired)

\* Whether the cycle produced a HIGH or CRITICAL factor for the key.
HeldHigh(key, analyses) ==
    \E i \in 1..Len(analyses) :
        /\ MONITORED_ASSETS[i] = key[1]
        /\ \E x \in Range(analyses[i].factors) :
               x.type = key[2] /\ x.severity \in {"CRITICAL", "HIGH"}

\* The run of cycles in which a key held at HIGH/CRITICAL, counted from a cycle
\* that began with the key's counter at 0, up to 4 and then anew.
NextStreak(streak, before, high) ==
    IF ~high THEN 0
    ELSE IF streak \in 1..3 THEN streak + 1
    ELSE IF before = 0 THEN 1 ELSE 0

\* One pass of the `while True` of monitor_risk_factors: with an empty
\* market_data (`if market_data:`) nothing is analysed.
RiskMonitorCycle(resp) ==
    /\ risk_pc = "loop"
    /\ \E market_data \in {GetMarketData(resp)} :
       \E analyses \in {IF DOMAIN market_data # {}
                        THEN AnalyzeAll(Len(MONITORED_ASSETS), market_data)
                        ELSE <<>>} :
       \E scan \in {IF DOMAIN market_data # {}
                    THEN ScanAssets(1, analyses, risk_consecutive,
                                    [k \in AlertKeys |-> 0])
                    ELSE [consecutive |-> risk_consecutive,
                          fired |-> [k \in AlertKeys |-> 0]]} :
           /\ risk_consecutive' = scan.consecutive
           /\ risk_oi_history' =
                  IF DOMAIN market_data # {}
                  THEN [a \in Range(MONITORED_ASSETS) |->
                           analyses[CHOOSE i \in 1..Len(MONITORED_ASSETS) :
                                        MONITORED_ASSETS[i] = a].history]
                  ELSE risk_oi_history
           /\ risk_obs' =
                  [k \in AlertKeys |->
                      LET high == HeldHigh(k, analyses)
                      IN  [high |-> high,
                           fired |-> scan.fired[k],
                           streak |-> NextStreak(risk_obs[k].streak, risk_consecutive[k], high)]]
    /\ UNCHANGED <<risk_pc, risk_asset_map, risk_id_to_name, risk_margin_data,
                   risk_alerts>>

\* print_summary: "Total risk factors detected: {len(self.risk_alerts)}"
SummaryTotal == Len(risk_alerts)

RiskInit ==
    /\ risk_pc = "start"
    /\ risk_asset_map = EmptyDict
    /\ risk_id_to_name = EmptyDict
    /\ risk_margin_data = EmptyDict
    /\ risk_oi_history = [a \in Range(MONITORED_ASSETS) |-> <<>>]
    /\ risk_consecutive = [k \in AlertKeys |-> 0]
    /\ risk_obs = [k \in AlertKeys |-> [high |-> FALSE, fired |-> 0, streak |-> 0]]
    /\ risk_alerts = <<>>

RiskNext ==
    \/ \E m \in RiskMetaResponses : RiskLoadMarketMetadata(m)
    \/ \E r \in RiskCtxResponses : RiskMonitorCycle(r)

----------------------------------------------------------------------------
(***************************************************************************)
(* LiquidationsMonitor (basic and advanced): the recentTrades poll and the *)
(* per-asset watermark last_processed_time                                 *)
(***************************************************************************)

\* MONITORED_ASSETS of liquidations_config.py and liquidations_monitor.py
LIQ_MONITORED_ASSETS == <<"BTC", "ETH", "SOL">>

LIQUIDATION_THRESHOLD_USD == 50000

\* The longest page of trades one recentTrades answer carries.
PageMaxLen == 2

\* Polls are made while fewer than this many liquidations have been counted.
MaxCounted == 2

\* Trades of a recentTrades answer; px and sz are JSON strings.
LiqTrades ==
    { [liquidation |-> TRUE, time |-> 1, px |-> "50000", sz |-> "1", side |-> "SELL"],
      [liquidation |-> TRUE, time |-> 2, px |-> "50000", sz |-> "2", side |-> "BUY"],
      [liquidation |-> TRUE, time |-> 3, px |-> "50000", sz |-> "1", side |-> "SELL"],
      [liquidation |-> TRUE, time |-> 2, px |-> "150", sz |-> "2", side |-> "SELL"],
      [liquidation |-> FALSE, time |-> 3, px |-> "50000", sz |-> "1", side |-> "BUY"],
      [liquidation |-> TRUE, time |-> 3, px |-> "n/a", sz |-> "1", side |-> "SELL"] }

RECURSIVE SeqsUpTo(_, _)
SeqsUpTo(S, n) ==
    IF n = 0 THEN {<<>>}
    ELSE LET shorter == SeqsUpTo(S, n - 1)
         IN  shorter \cup {Append(q, x) : q \in shorter, x \in S}

\* Pages fed for the first monitored asset, in any order of their trades.
LiqPages == SeqsUpTo(LiqTrades, PageMaxLen)

\* Pages fed for the other assets.
LiqPagesOther ==
    {<<>>, <<[liquidation |-> TRUE, time |-> 2, px |-> "50000", sz |-> "2", side |-> "BUY"]>>}

\* Answers to recentTrades for asset i: the request fails, data is not a list,
\* or data is a page of trades.
LiqResponses(i) ==
    {[success |-> FALSE, isList |-> FALSE, trades |-> <<>>],
     [success |-> TRUE, isList |-> FALSE, trades |-> <<>>]}
        \cup {[success |-> TRUE, isList |-> TRUE, trades |-> pg] :
                 pg \in IF i = 1 THEN LiqPages ELSE LiqPagesOther}

\* A watermark test that lets an equal timestamp through.
IsStale_Strict(time_ms, last) == time_ms < last

\* A poll without the watermark test.
IsStale_Never(time_ms, last) == FALSE

\* if time_ms <= self.last_processed_time[asset]: continue
IsStale(time_ms, last) == time_ms <= last

\* dict[key] = value
DictPut(d, key, value) == [k \in DOMAIN d \cup {key} |-> IF k = key THEN value ELSE d[k]]

\* The significand of a Python float has 53 bits; the width is scaled down so
\* that the volumes fed reach the rounding.
MantBits == 12

\* The spacing of the floats around x >= 0: the least power of two u with
\* x < 2^MantBits * u.
RECURSIVE UlpOf(_, _)
UlpOf(x, u) == IF x < Pow2(MantBits) * u THEN u ELSE UlpOf(x, 2 * u)

\* The float nearest to the real x >= 0, ties to the even significand.
FloatRound(x) ==
    LET u == UlpOf(x, 1)
        q == x \div u
        r == x % u
    IN  IF 2 * r < u THEN q * u
        ELSE IF 2 * r > u THEN (q + 1) * u
        ELSE IF q % 2 = 0 THEN q * u ELSE (q + 1) * u

\* a + b and a * b on floats
FloatAdd(a, b) == FloatRound(a + b)

FloatMul(a, b) == FloatRound(a * b)

\* An update that forgets the per-side breakdown.
UpdateStats_NoSide(stats, asset, usd_value, side) ==
    [total_liquidations |-> stats.total_liquidations + 1,
     total_volume_usd |-> FloatAdd(stats.total_volume_usd, usd_value),
     by_asset |-> [stats.by_asset EXCEPT ![asset] =
                      [count |-> @.count + 1, volume |-> FloatAdd(@.volume, usd_value)]],
     by_side |-> stats.by_side]

\* update_stats(asset, usd_value, side)
UpdateStats(stats, asset, usd_value, side) ==
    LET liquidation_type == IF side \in {"SELL", "sell", "Sell"} THEN "LONG" ELSE "SHORT"
    IN  [total_liquidations |-> stats.total_liquidations + 1,
         total_volume_usd |-> FloatAdd(stats.total_volume_usd, usd_value),
         by_asset |-> [stats.by_asset EXCEPT ![asset] =
                          [count |-> @.count + 1, volume |-> FloatAdd(@.volume, usd_value)]],
         by_side |-> [stats.by_side EXCEPT ![liquidation_type] =
                          [count |-> @.count + 1, volume |-> FloatAdd(@.volume, usd_value)]]]

\* usd_value = price * size of a trade whose px and sz convert, else 0.
UsdValue(trade) ==
    IF SafeFloat(trade.px).isNone \/ SafeFloat(trade.sz).isNone THEN 0
    ELSE FloatMul(SafeFloat(trade.px).val, SafeFloat(trade.sz).val)

\* One examined liquidation trade, for the observation log.
LogEntry(asset, trade, known, before, after, outcome, shown) ==
    [asset |-> asset, time |-> trade.time, known |-> known, before |-> before,
     after |-> after, outcome |-> outcome, displayed |-> shown, counted |-> shown,
     usd |-> UsdValue(trade)]

\* A monitor for which no asset is ever new.
IsFirstSeen_Never(asset, lpt) == FALSE

\* if asset not in self.last_processed_time
IsFirstSeen(asset, lpt) == asset \notin DOMAIN lpt

\* The body of `for trade in trades` of the advanced check_recent_liquidations:
\* st holds last_processed_time, stats, the log and whether float() raised.
AdvExamine(asset, trade, st) ==
    LET lpt == st.lpt
        time_ms == trade.time
        known == ~IsFirstSeen(asset, lpt)
        before == IF asset \in DOMAIN lpt THEN lpt[asset] ELSE 0
    IN  IF ~trade.liquidation THEN st
        ELSE IF ~known
        THEN [st EXCEPT !.lpt = DictPut(lpt, asset, time_ms),
                        !.log = Append(@, LogEntry(asset, trade, FALSE, 0, time_ms,
                                                   "seeded", FALSE))]
        ELSE IF IsStale(time_ms, before)
        THEN [st EXCEPT !.log = Append(@, LogEntry(asset, trade, TRUE, before, before,
                                                   "dropped", FALSE))]
        ELSE LET after == Max(time_ms, before)
                 price == SafeFloat(trade.px)
                 size == SafeFloat(trade.sz)
                 usd_value == FloatMul(price.val, size.val)
             IN  IF price.isNone \/ size.isNone
                 THEN [st EXCEPT !.lpt = DictPut(lpt, asset, after),
                                 !.raised = TRUE,
                                 !.log = Append(@, LogEntry(asset, trade, TRUE, before, after,
                                                            "raised", FALSE))]
                 ELSE IF usd_value >= LIQUIDATION_THRESHOLD_USD
                 THEN [st EXCEPT !.lpt = DictPut(lpt, asset, after),
                                 !.stats = UpdateStats(@, asset, usd_value, trade.side),
                                 !.log = Append(@, LogEntry(asset, trade, TRUE, before, after,
                                                            "processed", TRUE))]
                 ELSE [st EXCEPT !.lpt = DictPut(lpt, asset, after),
                                 !.log = Append(@, LogEntry(asset, trade, TRUE, before, after,
                                                            "processed", FALSE))]

\* The body of `for trade in trades` of the basic check_recent_liquidations.
BasicExamine(asset, trade, st) ==
    LET time_ms == trade.time
        known == asset \in DOMAIN st.lpt
        lpt == IF known THEN st.lpt ELSE DictPut(st.lpt, asset, 0)
        before == lpt[asset]
    IN  IF ~trade.liquidation THEN st
        ELSE IF IsStale(time_ms, before)
        THEN [st EXCEPT !.lpt = lpt,
                        !.log = Append(@, LogEntry(asset, trade, TRUE, before, before,
                                                   "dropped", FALSE))]
        ELSE LET price == SafeFloat(trade.px)
                 size == SafeFloat(trade.sz)
                 usd_value == FloatMul(price.val, size.val)
             IN  IF price.isNone \/ size.isNone
                 THEN [st EXCEPT !.lpt = DictPut(lpt, asset, time_ms),
                                 !.raised = TRUE,
                                 !.log = Append(@, LogEntry(asset, trade, TRUE, before, time_ms,
                                                            "raised", FALSE))]
                 ELSE [st EXCEPT !.lpt = DictPut(lpt, asset, time_ms),
                                 !.log = Append(@, LogEntry(asset, trade, TRUE, before, time_ms,
                                                            "processed",
                                                            usd_value >= LIQUIDATION_THRESHOLD_USD))]

\* `for trade in trades`, until the page ends or an exception leaves the loop.
RECURSIVE ExamineTrades(_, _, _, _)
ExamineTrades(variant, asset, trades, st) ==
    IF trades = <<>> \/ st.raised THEN st
    ELSE ExamineTrades(variant, asset, Tail(trades),
                       IF variant = "advanced" THEN AdvExamine(asset, Head(trades), st)
                       ELSE BasicExamine(asset, Head(trades), st))

\* The monitors' _make_request: one POST inside one try; any exception gives
\* the failure result at once.
LmMakeRequest(resp) == [success |-> resp.success, posts |-> 1]

\* How a poll ended: the request failed, data was not a list, an exception left
\* check_recent_liquidations, or nothing went wrong.
PollError(resp, raised) ==
    IF ~resp.success THEN "request_failed"
    ELSE IF ~resp.isList THEN "not_a_list"
    ELSE IF raised THEN "raised"
    ELSE "none"

\* await self.get_current_prices(): the prices are only displayed.
LmGetCurrentPrices ==
    /\ lm_next = 0
    /\ lm_next' = 1
    /\ lm_req' = [posts |-> LmMakeRequest([success |-> TRUE]).posts, error |-> "none"]
    /\ UNCHANGED <<lm_variant, lm_last_processed_time, lm_stats, lm_log>>

\* A loop that an exception leaves: the position after the last asset's poll is
\* never left.
NextPoll_Halt(i, raised) ==
    IF raised THEN Len(LIQ_MONITORED_ASSETS) + 1
    ELSE IF i = Len(LIQ_MONITORED_ASSETS) THEN 0 ELSE i + 1

\* Where the loop goes after the poll of asset i: the next asset, or (after the
\* last asset's poll and the sleep, or after an exception and the retry sleep)
\* the top of the loop.
NextPoll(i, raised) == IF raised \/ i = Len(LIQ_MONITORED_ASSETS) THEN 0 ELSE i + 1

\* await self.check_recent_liquidations(asset) for the asset the loop is at.
\* The basic script iterates over data that is not a list and raises. Once
\* MaxCounted liquidations are counted, the only answers left are failed
\* requests.
CheckRecentLiquidations(resp) ==
    /\ lm_next \in 1..Len(LIQ_MONITORED_ASSETS)
    /\ lm_stats.total_liquidations < MaxCounted \/ ~resp.success
    /\ LET asset == LIQ_MONITORED_ASSETS[lm_next]
           start == [lpt |-> lm_last_processed_time, stats |-> lm_stats,
                     log |-> <<>>, raised |-> FALSE]
           result == LmMakeRequest(resp)
       IN  \E st \in {IF ~result.success THEN start
                      ELSE IF ~resp.isList
                      THEN [start EXCEPT !.raised = (lm_variant = "basic")]
                      ELSE ExamineTrades(lm_variant, asset, resp.trades, start)} :
               /\ lm_last_processed_time' = st.lpt
               /\ lm_stats' = st.stats
               /\ lm_log' = st.log
               /\ lm_next' = NextPoll(lm_next, st.raised)
               /\ lm_req' = [posts |-> result.posts, error |-> PollError(resp, st.raised)]
    /\ UNCHANGED lm_variant

LmInit ==
    /\ lm_variant \in {"basic", "advanced"}
    /\ lm_next = 0
    /\ lm_last_processed_time = EmptyDict
    /\ lm_stats = [total_liquidations |-> 0, total_volume_usd |-> 0,
                   by_asset |-> [a \in Range(LIQ_MONITORED_ASSETS) |->
                                    [count |-> 0, volume |-> 0]],
                   by_side |-> [t \in {"LONG", "SHORT"} |-> [count |-> 0, volume |-> 0]]]
    /\ lm_log = <<>>
    /\ lm_req = [posts |-> 0, error |-> "none"]

LmNext ==
    \/ LmGetCurrentPrices
    \/ \E r \in LiqResponses(lm_next) : CheckRecentLiquidations(r)

----------------------------------------------------------------------------
(***************************************************************************)
(* The calculators: liquidation price, distance to liquidation, risk level *)
(*                                                                         *)
(* Prices are integers (in the end-to-end estimate, tenths of a dollar);   *)
(* a liquidation price is a ratio num/den with den > 0; a distance is a    *)
(* ratio in percent, or +infinity.                                         *)
(***************************************************************************)

\* float('inf')
Infinity == [inf |-> TRUE, num |-> 0, den |-> 1]

\* A finite distance num/den, den > 0.
Finite(num, den) == [inf |-> FALSE, num |-> num, den |-> den]

\* a < b and a <= b for ratios with positive denominators
RatLess(a, b) == a.num * b.den < b.num * a.den

RatLeq(a, b) == a.num * b.den <= b.num * a.den

\* round(x) of a non-negative ratio to the nearest integer
RoundRat(num, den) == (2 * num + den) \div (2 * den)

\* LiquidationRiskCalculator.calculate_liquidation_price with the default
\* maintenance_margin_rate = 0.004 = 4/1000
LiqCalculateLiquidationPrice(entry_price, leverage, position_size, side) ==
    IF leverage <= 0 \/ position_size.num <= 0 \/ entry_price <= 0 THEN Rat(0, 1)
    ELSE IF Upper(side) = "LONG" THEN Rat(entry_price * (1000 - 4 * leverage), 996)
    ELSE Rat(entry_price * (1000 + 4 * leverage), 1004)

\* LiquidationRiskCalculator.calculate_distance_to_liquidation:
\* max(0.0, ((current_price - liquidation_price) / current_price) * 100), whatever the side
LiqCalculateDistanceToLiquidation(current_price, liquidation_price, side) ==
    IF current_price <= 0 \/ liquidation_price.num <= 0 THEN Infinity
    ELSE Finite(Max(0, (current_price * liquidation_price.den - liquidation_price.num) * 100),
                current_price * liquidation_price.den)

\* A distance that is the bare ratio liquidation_price / current_price.
RealCalculateDistanceToLiquidation_Ratio(current_price, liquidation_price, side) ==
    IF current_price <= 0 \/ liquidation_price.num <= 0 THEN Infinity
    ELSE Finite(liquidation_price.num, current_price * liquidation_price.den)

\* RealLiquidationsMonitor._calculate_distance_to_liquidation: by side, clamped
\* at 0, and 0.01 for a distance strictly between 0 and 0.01
RealCalculateDistanceToLiquidation(current_price, liquidation_price, side) ==
    IF current_price <= 0 \/ liquidation_price.num <= 0 THEN Infinity
    ELSE LET den == current_price * liquidation_price.den
             raw == IF Upper(side) = "SHORT"
                    THEN (liquidation_price.num - current_price * liquidation_price.den) * 100
                    ELSE (current_price * liquidation_price.den - liquidation_price.num) * 100
             distance == Max(0, raw)
         IN  IF 0 < distance /\ distance * 100 < den THEN Finite(1, 100)
             ELSE Finite(distance, den)

\* A classification whose boundaries are exclusive.
LiqCalculateRiskLevel_Exclusive(distance_to_liquidation) ==
    IF ~distance_to_liquidation.inf
       /\ distance_to_liquidation.num < 2 * distance_to_liquidation.den THEN "CRITICAL"
    ELSE IF ~distance_to_liquidation.inf
            /\ distance_to_liquidation.num < 5 * distance_to_liquidation.den THEN "HIGH"
    ELSE IF ~distance_to_liquidation.inf
            /\ distance_to_liquidation.num < 10 * distance_to_liquidation.den THEN "MEDIUM"
    ELSE "LOW"

\* LiquidPositionsMonitor._calculate_risk_level
LiqCalculateRiskLevel(distance_to_liquidation) ==
    IF DistanceAtMost(distance_to_liquidation, 2) THEN "CRITICAL"
    ELSE IF DistanceAtMost(distance_to_liquidation, 5) THEN "HIGH"
    ELSE IF DistanceAtMost(distance_to_liquidation, 10) THEN "MEDIUM"
    ELSE "LOW"

\* The `# Risk level` chain of RealLiquidationsMonitor.generate_realistic_positions
RealRiskLevel(distance_to_liq) ==
    IF DistanceAtMost(distance_to_liq, 2) THEN "CRITICAL"
    ELSE IF DistanceAtMost(distance_to_liq, 5) THEN "HIGH"
    ELSE IF DistanceAtMost(distance_to_liq, 10) THEN "MEDIUM"
    ELSE "LOW"

\* The classes that compute a liquidation price, a distance, a risk level.
PriceCalculators == {"LiquidationRiskCalculator", "PositionRiskCalculator"}

DistanceCalculators ==
    {"LiquidationRiskCalculator", "PositionRiskCalculator", "RealLiquidationsMonitor"}

LevelCalculators == {"LiquidPositionsMonitor", "RealLiquidationsMonitor"}

Sides == {"LONG", "SHORT"}

\* Arguments (entry_price, leverage, position_size) of
\* calculate_liquidation_price: an entry price of 1000 at leverages 1, 20 and
\* 250 (where 1 - 0.004 * leverage reaches 0), and one argument at 0 in turn.
PriceArgs ==
    {<<1000, l, Rat(1, 1)>> : l \in {1, 20, 250}}
        \cup {<<0, 20, Rat(1, 1)>>, <<1000, 0, Rat(1, 1)>>, <<1000, 20, Rat(0, 1)>>}

\* Current prices on both sides of a liquidation price of 20000, down to
\* 0.005% away from it, and 0.
CurrentPrices == {0, 19600, 19998, 19999, 20000, 20001, 20002, 20003, 20400}

\* Arguments (current_price, liquidation_price) of the distance functions.
DistanceArgs ==
    {<<p, Rat(20000, 1)>> : p \in CurrentPrices} \cup {<<20000, Rat(0, 1)>>}

\* Arguments of the risk level: the boundaries 2, 5 and 10 percent and the
\* values 0.0001 above them, a negative distance, 0 and +infinity.
Distances ==
    {Infinity, Finite(-10, 1), Finite(0, 1)}
        \cup {Finite(n, 10000) : n \in {20000, 20001, 50000, 50001, 100000, 100001}}

\* Current prices of the position estimate, in tenths of a dollar: 93.50, 100, 0.
EstimatePrices == {0, 935, 1000}

\* Arguments (entry_price, current_price, position_size) of calculate_pnl:
\* the current price below, at and above the entry price.
PnlArgs == {<<1000, c, s>> : c \in {900, 1000, 1100}, s \in {1, 3}}

\* Sides given to calculate_pnl, which upper-cases them.
PnlSides == {"LONG", "long", "SHORT"}

\* A PnL that ignores the side.
LiqCalculatePnl_Unsigned(entry_price, current_price, position_size, side) ==
    [pnl_usd |-> (current_price - entry_price) * position_size,
     pnl_pct |-> Rat(current_price - entry_price, entry_price)]

\* LiquidationRiskCalculator.calculate_pnl, for entry_price > 0: pnl_pct is the
\* ratio over entry_price.
LiqCalculatePnl(entry_price, current_price, position_size, side) ==
    IF Upper(side) = "LONG"
    THEN [pnl_usd |-> (current_price - entry_price) * position_size,
          pnl_pct |-> Rat(current_price - entry_price, entry_price)]
    ELSE [pnl_usd |-> (entry_price - current_price) * position_size,
          pnl_pct |-> Rat(entry_price - current_price, entry_price)]

NoCall == [fn |-> "none", calc |-> None, args |-> <<>>, out |-> None]

\* One more call: it becomes the last one.
Called(fn, calc, args, out) ==
    /\ calc_prev' = calc_obs
    /\ calc_obs' = [fn |-> fn, calc |-> calc, args |-> args, out |-> out]

\* calculate_liquidation_price(entry_price, leverage, position_size, side)
CallLiquidationPrice(calc, entry_price, leverage, position_size, side) ==
    Called("calculate_liquidation_price", calc,
           <<entry_price, leverage, position_size, side>>,
           IF calc = "LiquidationRiskCalculator"
           THEN LiqCalculateLiquidationPrice(entry_price, leverage, position_size, side)
           ELSE RiskCalculateLiquidationPrice(entry_price, leverage, position_size, side))

\* calculate_distance_to_liquidation(current_price, liquidation_price, side)
CallDistanceToLiquidation(calc, current_price, liquidation_price, side) ==
    Called("calculate_distance_to_liquidation", calc,
           <<current_price, liquidation_price, side>>,
           CASE calc = "LiquidationRiskCalculator" ->
                    LiqCalculateDistanceToLiquidation(current_price, liquidation_price, side)
             [] calc = "PositionRiskCalculator" ->
                    RiskCalculateDistanceToLiquidation(current_price, liquidation_price, side)
             [] OTHER ->
                    RealCalculateDistanceToLiquidation(current_price, liquidation_price, side))

\* The risk level of a distance, by either of the two chains.
CallRiskLevel(calc, distance) ==
    Called("risk_level", calc, <<distance>>,
           IF calc = "LiquidPositionsMonitor" THEN LiqCalculateRiskLevel(distance)
           ELSE RealRiskLevel(distance))

\* One position of LiquidPositionsMonitor.get_aggregated_positions: liquidation
\* price, then distance, then (for 0 <= distance <= 50) the risk level.
EstimatePosition(entry_price, leverage, position_size, side, current_price) ==
    LET liquidation_price ==
            LiqCalculateLiquidationPrice(entry_price, leverage, position_size, side)
        distance_to_liq ==
            LiqCalculateDistanceToLiquidation(current_price, liquidation_price, side)
        included == /\ ~distance_to_liq.inf
                    /\ 0 <= distance_to_liq.num
                    /\ distance_to_liq.num <= 50 * distance_to_liq.den
    IN  Called("estimate_position", "LiquidPositionsMonitor",
               <<entry_price, leverage, position_size, side, current_price>>,
               [liquidation_price |-> liquidation_price,
                distance_to_liquidation |-> distance_to_liq,
                included |-> included,
                risk_level |-> IF included THEN LiqCalculateRiskLevel(distance_to_liq)
                               ELSE None])

\* calculate_pnl(entry_price, current_price, position_size, side)
CallPnl(entry_price, current_price, position_size, side) ==
    Called("calculate_pnl", "LiquidationRiskCalculator",
           <<entry_price, current_price, position_size, side>>,
           LiqCalculatePnl(entry_price, current_price, position_size, side))

CalcInit ==
    /\ calc_obs = NoCall
    /\ calc_prev = NoCall

CalcNext ==
    \/ \E c \in PriceCalculators, a \in PriceArgs, s \in Sides :
          CallLiquidationPrice(c, a[1], a[2], a[3], s)
    \/ \E c \in DistanceCalculators, a \in DistanceArgs, s \in Sides :
          CallDistanceToLiquidation(c, a[1], a[2], s)
    \/ \E c \in LevelCalculators, d \in Distances : CallRiskLevel(c, d)
    \/ \E l \in {1, 20}, s \in Sides, p \in EstimatePrices :
          EstimatePosition(1000, l, Rat(1, 1), s, p)
    \/ \E a \in PnlArgs, s \in PnlSides : CallPnl(a[1], a[2], a[3], s)

----------------------------------------------------------------------------
(***************************************************************************)
(* LargeTradesMonitor.run: connect, subscribe, read, reconnect, stop       *)
(***************************************************************************)

\* JSON values as json.loads returns them, tagged with their Python type; a
\* dict is a record of its keys.
JNull == [t |-> "null"]

JStr(s) == [t |-> "str", v |-> s]

JList(items) == [t |-> "list", v |-> items]

JDict(fields) == [t |-> "dict", v |-> fields]

\* d.get(key)
JGet(d, key) == IF key \in DOMAIN d THEN d[key] ELSE JNull

\* [t for t in items if isinstance(t, dict)]
DictItems(items) ==
    LET dicts == SelectSeq(items, LAMBDA x : x.t = "dict")
    IN  [i \in 1..Len(dicts) |-> dicts[i].v]

\* _iter_trades_from_msg(obj)
IterTradesFromMsg(obj) ==
    IF obj.t # "dict" THEN <<>>
    ELSE LET data == JGet(obj.v, "data")
         IN  IF data.t = "list" THEN DictItems(data.v)
             ELSE IF data.t = "dict"
             THEN IF {"px", "sz", "time"} \subseteq DOMAIN data.v THEN <<data.v>>
                  ELSE LET nested == JGet(data.v, "data")
                       IN  IF nested.t = "list" THEN DictItems(nested.v) ELSE <<>>
             ELSE <<>>

\* Two trades of the feed.
BtcTrade ==
    [coin |-> "BTC", side |-> "B", px |-> "100000", sz |-> "2", time |-> 1000,
     tid |-> "1", hash |-> "0xa"]

EthTrade ==
    [coin |-> "ETH", side |-> "A", px |-> "3000", sz |-> "50", time |-> 1000,
     tid |-> "", hash |-> "0xb"]

\* A TEXT message whose data parses to obj and carries the trades `contains`.
TextMessage(obj, contains) ==
    [type |-> "TEXT", parses |-> TRUE, obj |-> obj, contains |-> contains]

\* A message or an end of the stream that carries no JSON.
OtherMessage(type) == [type |-> type, parses |-> FALSE, obj |-> JNull, contains |-> <<>>]

\* What the read loop can meet on a connection: TEXT messages of every shape
\* _iter_trades_from_msg distinguishes, a TEXT message that is not JSON, a
\* message of another type, the end of the stream (the peer closed: `async for`
\* stops), an ERROR message, and a read that raises.
WsMessages ==
    << TextMessage(JDict([channel |-> JStr("trades"),
                          data |-> JList(<<JDict(BtcTrade), JDict(EthTrade)>>)]),
                   <<BtcTrade, EthTrade>>),
       TextMessage(JDict([channel |-> JStr("trades"), data |-> JDict(BtcTrade)]),
                   <<BtcTrade>>),
       TextMessage(JDict([data |-> JDict([channel |-> JStr("trades"),
                                          data |-> JList(<<JDict(EthTrade)>>)])]),
                   <<EthTrade>>),
       TextMessage(JDict([data |-> JDict([channel |-> JStr("trades"),
                                          data |-> JDict(BtcTrade)])]),
                   <<BtcTrade>>),
       TextMessage(JDict([channel |-> JStr("trades"),
                          data |-> JList(<<JStr("x"), JDict(EthTrade)>>)]),
                   <<EthTrade>>),
       TextMessage(JDict([channel |-> JStr("subscriptionResponse"),
                          data |-> JDict([method |-> JStr("subscribe")])]),
                   <<>>),
       TextMessage(JDict([channel |-> JStr("pong")]), <<>>),
       TextMessage(JList(<<JDict(BtcTrade)>>), <<>>),
       TextMessage(JStr("x"), <<>>),
       OtherMessage("TEXT"),
       OtherMessage("BINARY"),
       OtherMessage("END"),
       OtherMessage("ERROR"),
       OtherMessage("RAISE") >>

\* What a step left in ws_last.
WsEvent(ev, msg, yielded, printed) ==
    [ev |-> ev, after |-> ws_last.ev, msg |-> msg, yielded |-> yielded,
     printed |-> printed]

\* A subscription that stops after the first coin.
SubscribedAll_First(subs) == Len(subs) >= 1

\* `for coin in self.assets` has sent every subscribe message.
SubscribedAll(subs) == Len(subs) = Len(MONITORED_ASSETS)

\* A read loop that a TEXT message that is not JSON leaves through the
\* exception handler.
BadJsonGoesTo_Raise == "retry_sleep"

\* except Exception: continue, around json.loads
BadJsonGoesTo == "read"

\* `except Exception as e` of run: the rate-limited print, up to the await of
\* the sleep.
WsOnException(ev, msg) ==
    /\ ws_pc' = "retry_sleep"
    /\ ws_quiet' = FALSE
    /\ ws_last' = WsEvent(ev, msg, <<>>, ws_quiet)
    /\ ws_pending' = <<>>

\* await self._ensure_session(), then self.session.ws_connect(...), which
\* returns a connection or raises.
WsConnect(outcome) ==
    /\ ws_pc = "connect"
    /\ ws_session' = "open"
    /\ IF outcome = "ok"
       THEN /\ ws_pc' = "subscribe"
            /\ ws_subs' = <<>>
            /\ ws_last' = WsEvent("connected", 0, <<>>, FALSE)
            /\ UNCHANGED <<ws_pending, ws_quiet>>
       ELSE /\ WsOnException("connection_error", 0)
            /\ UNCHANGED ws_subs
    /\ UNCHANGED lt_vars

\* One ws.send_json of _subscribe: it is sent, or it raises.
WsSubscribe(outcome) ==
    /\ ws_pc = "subscribe"
    /\ IF outcome = "ok"
       THEN LET subs == Append(ws_subs, MONITORED_ASSETS[Len(ws_subs) + 1])
            IN  /\ ws_subs' = subs
                /\ ws_pc' = IF SubscribedAll(subs) THEN "read" ELSE "subscribe"
                /\ ws_last' = WsEvent("subscribed", 0, <<>>, FALSE)
                /\ UNCHANGED <<ws_pending, ws_quiet>>
       ELSE /\ WsOnException("connection_error", 0)
            /\ UNCHANGED ws_subs
    /\ UNCHANGED <<ws_session, lt_vars>>

\* One turn of `async for msg in ws` up to the for loop over the trades.
WsReceive(i) ==
    LET msg == WsMessages[i]
    IN  /\ ws_pc = "read"
        /\ IF msg.type = "TEXT" /\ msg.parses
           THEN LET yielded == IterTradesFromMsg(msg.obj)
                IN  /\ Len(lt_log) + Len(yielded) <= MaxDeliveries
                    /\ ws_pending' = yielded
                    /\ ws_pc' = IF yielded = <<>> THEN "read" ELSE "handle"
                    /\ ws_last' = WsEvent("text", i, yielded, FALSE)
                    /\ UNCHANGED <<ws_subs, ws_quiet>>
           ELSE IF msg.type = "TEXT"
           THEN IF BadJsonGoesTo = "read"
                THEN /\ ws_pc' = "read"
                     /\ ws_last' = WsEvent("bad_json", i, <<>>, FALSE)
                     /\ UNCHANGED <<ws_subs, ws_pending, ws_quiet>>
                ELSE /\ WsOnException("bad_json", i)
                     /\ UNCHANGED ws_subs
           ELSE IF msg.type \in {"END", "ERROR"}
           THEN /\ ws_pc' = "connect"
                /\ ws_last' = WsEvent(IF msg.type = "END" THEN "peer_closed"
                                      ELSE "error_message", i, <<>>, FALSE)
                /\ UNCHANGED <<ws_subs, ws_pending, ws_quiet>>
           ELSE IF msg.type = "RAISE"
           THEN /\ WsOnException("read_error", i)
                /\ UNCHANGED ws_subs
           ELSE /\ ws_pc' = "read"
                /\ ws_last' = WsEvent("ignored", i, <<>>, FALSE)
                /\ UNCHANGED <<ws_subs, ws_pending, ws_quiet>>
        /\ UNCHANGED <<ws_session, lt_vars>>

\* One turn of `for trade in _iter_trades_from_msg(obj): self._handle_trade(trade)`
WsHandleTrade ==
    /\ ws_pc = "handle"
    /\ HandleTrade(Head(ws_pending))
    /\ ws_pending' = Tail(ws_pending)
    /\ ws_pc' = IF Tail(ws_pending) = <<>> THEN "read" ELSE "handle"
    /\ ws_last' = [ws_last EXCEPT !.ev = "handled", !.after = ws_last.ev]
    /\ UNCHANGED <<ws_session, ws_subs, ws_quiet>>

\* await asyncio.sleep(RETRY_DELAY_SECONDS) in the exception handler returns.
WsRetrySleep ==
    /\ ws_pc = "retry_sleep"
    /\ ws_pc' = "connect"
    /\ ws_quiet' = TRUE
    /\ ws_last' = WsEvent("slept", 0, <<>>, FALSE)
    /\ UNCHANGED <<ws_session, ws_subs, ws_pending, lt_vars>>

\* The awaits of run, where a stop signal is delivered.
SuspensionPoints == {"connect", "subscribe", "read", "retry_sleep"}

\* `except KeyboardInterrupt: break` catches the signal: it is a
\* KeyboardInterrupt raised inside the try block. A CancelledError is not an
\* Exception, and the sleep of the handler is outside the try block.
CaughtByRun(signal, pc) == signal = "KeyboardInterrupt" /\ pc # "retry_sleep"

\* A stop signal is delivered at an await of run. Caught, it breaks the loop
\* and `await self.close()` runs; otherwise it leaves run. At the await of
\* ws_connect the session exists already.
WsStop(signal) ==
    /\ ws_pc \in SuspensionPoints
    /\ ws_pc' = "finished"
    /\ ws_session' = IF CaughtByRun(signal, ws_pc) THEN "closed"
                     ELSE IF ws_pc = "connect" THEN "open"
                     ELSE ws_session
    /\ ws_last' = WsEvent(signal, 0, <<>>, FALSE)
    /\ UNCHANGED <<ws_subs, ws_pending, ws_quiet, lt_vars>>

WsInit ==
    /\ ws_pc = "connect"
    /\ ws_session = "none"
    /\ ws_subs = <<>>
    /\ ws_pending = <<>>
    /\ ws_quiet = TRUE
    /\ ws_last = [ev |-> "start", after |-> "start", msg |-> 0, yielded |-> <<>>,
                  printed |-> FALSE]

WsNext ==
    \/ \E o \in {"ok", "raise"} : WsConnect(o)
    \/ \E o \in {"ok", "raise"} : WsSubscribe(o)
    \/ \E i \in 1..Len(WsMessages) : WsReceive(i)
    \/ WsHandleTrade
    \/ WsRetrySleep
    \/ \E s \in {"KeyboardInterrupt", "CancelledError"} : WsStop(s)

----------------------------------------------------------------------------
(***************************************************************************)
(* The specifications, one per program                                     *)
(***************************************************************************)

\* Every program as constructed; of the two liquidation scripts, the one that
\* runs is chosen in SpecLiquidations only.
Init == ApiInit /\ LtInit /\ WsInit /\ RiskInit /\ LmInit /\ CalcInit

InitOthers == Init /\ lm_variant = "basic"

SpecApi ==
    InitOthers /\ [][ApiNext /\ UNCHANGED <<lt_vars, ws_vars, risk_vars, lm_vars, calc_vars>>]_vars

SpecLargeTrades ==
    InitOthers /\ [][LtNext /\ UNCHANGED <<api_vars, ws_vars, risk_vars, lm_vars, calc_vars>>]_vars

SpecLargeTradesRun ==
    InitOthers /\ [][WsNext /\ UNCHANGED <<api_vars, risk_vars, lm_vars, calc_vars>>]_vars

SpecRisk ==
    InitOthers /\ [][RiskNext /\ UNCHANGED <<api_vars, lt_vars, ws_vars, lm_vars, calc_vars>>]_vars

\* The risk monitor under the scheduling of the event loop: every await of
\* load_market_metadata and of the monitoring loop completes (requests carry a
\* total timeout, sleeps are finite), so the coroutine takes its next step.
SpecRiskLive ==
    /\ InitOthers
    /\ [][RiskNext /\ UNCHANGED <<api_vars, lt_vars, ws_vars, lm_vars, calc_vars>>]_vars
    /\ WF_vars(RiskNext /\ UNCHANGED <<api_vars, lt_vars, ws_vars, lm_vars, calc_vars>>)

SpecLiquidations ==
    Init /\ [][LmNext /\ UNCHANGED <<api_vars, lt_vars, ws_vars, risk_vars, calc_vars>>]_vars

\* The polling loop under the scheduling of the event loop: every await of the
\* loop completes (requests carry a total timeout, sleeps are finite), so the
\* coroutine is resumed and takes its next step.
SpecLiquidationsLive ==
    /\ Init
    /\ [][LmNext /\ UNCHANGED <<api_vars, lt_vars, ws_vars, risk_vars, calc_vars>>]_vars
    /\ WF_vars(LmNext /\ UNCHANGED <<api_vars, lt_vars, ws_vars, risk_vars, calc_vars>>)

SpecCalc ==
    InitOthers /\ [][CalcNext /\ UNCHANGED <<api_vars, lt_vars, ws_vars, risk_vars, lm_vars>>]_vars

----------------------------------------------------------------------------
(***************************************************************************)
(* Claims about _make_request                                              *)
(***************************************************************************)

\* Every POST of the call so far timed out or raised a transport error.
EveryAttemptFailedInTransport ==
    /\ api_log # <<>>
    /\ \A i \in 1..Len(api_log) : api_log[i].outcome \in {"timeout", "client_error"}

\* C1: a call never issues more than max_retries POSTs; with max_retries = 3 and
\* every attempt timing out or failing in transport, the call returns only after
\* exactly 3 POSTs, and returns success=False with the error of the last attempt.
C1_ExactlyMaxRetriesAttempts ==
    /\ api_posts <= api_max_retries
    /\ (api_pc = "returned" /\ api_max_retries = 3 /\ EveryAttemptFailedInTransport)
         => /\ api_posts = 3
            /\ api_result = FailureResult(ErrorText(Last(api_log).outcome))
            /\ api_result.success = FALSE

C1_Witness ==
    /\ api_pc = "returned"
    /\ api_max_retries = 3
    /\ EveryAttemptFailedInTransport
    /\ api_posts = 3
    /\ api_result.error = "Timeout"

\* C2 (as claimed): with max_retries = 3 and every attempt timing out, the call
\* has slept 0.5 s, 1 s and 2 s by the time it returns the terminal error.
C2_ThreeBackoffDelays ==
    (/\ api_pc = "returned"
     /\ api_max_retries = 3
     /\ api_log # <<>>
     /\ \A i \in 1..Len(api_log) : api_log[i].outcome = "timeout")
        => api_sleeps = <<500, 1000, 2000>>

\* C3: a successful response is the last thing its call does: it is the last POST,
\* the call has returned success=True with that response's body (empty or not),
\* and the only sleeps are those of the failed attempts before it.
C3_SuccessEndsCall ==
    \A i \in 1..Len(api_log) :
        api_log[i].outcome = "ok" =>
            /\ i = Len(api_log)
            /\ api_pc = "returned"
            /\ api_result = SuccessResult(api_log[i].body)
            /\ api_posts = i
            /\ Len(api_sleeps) = i - 1

C3_Witness ==
    /\ api_pc = "returned"
    /\ Len(api_log) = 2
    /\ api_log[1].outcome = "timeout"
    /\ api_log[2] = [outcome |-> "ok", body |-> "EMPTY_LIST"]
    /\ api_result = SuccessResult("EMPTY_LIST")

----------------------------------------------------------------------------
(***************************************************************************)
(* Claims about the dedup memory of LargeTradesMonitor                     *)
(***************************************************************************)

\* The keys that passed the dedup stage, in the order they passed.
RECURSIVE PassedKeys(_)
PassedKeys(log) ==
    IF log = <<>> THEN <<>>
    ELSE LET rest == PassedKeys(SubSeq(log, 1, Len(log) - 1))
         IN  IF Last(log).passed THEN Append(rest, Last(log).key) ELSE rest

\* The last n entries of s (all of s when it is shorter).
LastN(s, n) == IF Len(s) <= n THEN s ELSE SubSeq(s, Len(s) - n + 1, Len(s))

\* C6: of two deliveries of the same payload in a row, the second is dropped
\* before any processing or output; and when the payload's key was new, the
\* first passed, so exactly one of the two is processed.
C6_SecondDeliveryDropped ==
    \A i \in 1..(Len(lt_log) - 1) :
        lt_log[i].trade = lt_log[i + 1].trade =>
            /\ ~lt_log[i + 1].passed
            /\ ~lt_log[i + 1].printed
            /\ (\A j \in 1..(i - 1) : lt_log[j].key # lt_log[i].key) => lt_log[i].passed

C6_Witness ==
    \E i \in 1..(Len(lt_log) - 1) :
        /\ lt_log[i].trade = lt_log[i + 1].trade
        /\ lt_log[i].passed
        /\ lt_log[i].printed
        /\ ~lt_log[i + 1].passed

\* C7: the memory never holds more keys than its capacity, and it holds exactly
\* the most recent keys that passed, oldest first: eviction is first-in first-out.
C7_BoundedFifo ==
    /\ Len(lt_seen) <= SeenMaxLen
    /\ lt_seen = LastN(PassedKeys(lt_log), SeenMaxLen)

C7_Witness ==
    LET passed == PassedKeys(lt_log)
    IN  /\ Len(passed) = SeenMaxLen + 1
        /\ ~InSeen(passed[1])
        /\ \A i \in 2..Len(passed) : InSeen(passed[i])
        /\ Len(lt_seen) = SeenMaxLen

\* C8 (as claimed): no key passes the dedup stage twice.
C8_AtMostOnce ==
    \A i, j \in 1..Len(lt_log) :
        (i < j /\ lt_log[i].passed /\ lt_log[j].passed) => lt_log[i].key # lt_log[j].key

\* C8 (amended): a key passes the dedup stage again only after at least as many
\* other keys as the memory holds have passed since it last did.
C8_AtMostOncePerWindow ==
    \A i, j \in 1..Len(lt_log) :
        (i < j /\ lt_log[i].passed /\ lt_log[j].passed /\ lt_log[i].key = lt_log[j].key)
            => Cardinality({k \in (i + 1)..(j - 1) :
                               lt_log[k].passed /\ lt_log[k].key # lt_log[i].key})
                   >= SeenMaxLen

C8_Witness ==
    \E i, j \in 1..Len(lt_log) :
        /\ i < j
        /\ lt_log[i].passed
        /\ lt_log[j].passed
        /\ lt_log[i].key = lt_log[j].key

----------------------------------------------------------------------------
(***************************************************************************)
(* Claims about the consecutive-alert counters of PositionsAtRiskMonitor   *)
(***************************************************************************)

\* C4: for every alert key, in a run of cycles that starts with the counter at 0
\* and in which the key holds at HIGH or CRITICAL every cycle, the alert does not
\* fire in cycles 1 and 3, fires exactly once in cycles 2 and 4, and the counter
\* is 0 after every cycle in which it fired.
C4_FiresEverySecondCycle ==
    \A k \in AlertKeys :
        /\ risk_obs[k].streak \in {1, 3} => risk_obs[k].fired = 0
        /\ risk_obs[k].streak \in {2, 4} => risk_obs[k].fired = 1
        /\ risk_obs[k].fired > 0 => risk_consecutive[k] = 0

C4_Witness ==
    \E k \in AlertKeys :
        /\ risk_obs[k].streak = 4
        /\ risk_obs[k].fired = 1
        /\ risk_consecutive[k] = 0

\* C5 (as claimed): a key that did not hold at HIGH or CRITICAL in the last cycle
\* has its counter at 0 after that cycle.
C5_ResetWhenNotHolding ==
    \A k \in AlertKeys : ~risk_obs[k].high => risk_consecutive[k] = 0

----------------------------------------------------------------------------
(***************************************************************************)
(* Claims about the watermark of the liquidation monitors                  *)
(***************************************************************************)

\* C9: a liquidation trade whose timestamp is at or below the asset's watermark
\* when it is examined is dropped: neither displayed nor counted, and the
\* watermark stays where it was.
C9_StaleTradeDropped ==
    \A i \in 1..Len(lm_log) :
        (lm_log[i].known /\ lm_log[i].time <= lm_log[i].before) =>
            /\ lm_log[i].outcome = "dropped"
            /\ ~lm_log[i].displayed
            /\ ~lm_log[i].counted

C9_Witness ==
    /\ lm_variant = "advanced"
    /\ Len(lm_log) = 2
    /\ lm_log[1].outcome = "processed"
    /\ lm_log[1].time = 3
    /\ lm_log[2].time = 2
    /\ lm_log[2].outcome = "dropped"

\* What C10 says of one poll: a trade that passes the watermark moves it to the
\* larger of the two, and a dropped trade leaves it.
WatermarkMovesToMax ==
    \A i \in 1..Len(lm_log) :
        /\ lm_log[i].outcome \in {"processed", "raised"} =>
               lm_log[i].after = Max(lm_log[i].before, lm_log[i].time)
        /\ lm_log[i].outcome = "dropped" => lm_log[i].after = lm_log[i].before
        /\ i < Len(lm_log) => lm_log[i + 1].before = lm_log[i].after
        /\ i = Len(lm_log) => lm_last_processed_time[lm_log[i].asset] = lm_log[i].after

\* C10: once an asset's watermark is set, no step unsets or lowers it; within a
\* poll each trade that passes moves it to the maximum of itself and the trade's
\* timestamp and each dropped trade leaves it unchanged.
C10_WatermarkNeverRegresses ==
    /\ []WatermarkMovesToMax
    /\ [][\A a \in DOMAIN lm_last_processed_time :
               /\ a \in DOMAIN lm_last_processed_time'
               /\ lm_last_processed_time'[a] >= lm_last_processed_time[a]]_vars

C10_Witness ==
    /\ lm_variant = "basic"
    /\ Len(lm_log) = 2
    /\ lm_log[1].outcome = "processed"
    /\ lm_log[1].before = 1
    /\ lm_log[1].after = 3
    /\ lm_log[2].outcome = "dropped"
    /\ lm_last_processed_time["BTC"] = 3

----------------------------------------------------------------------------
(***************************************************************************)
(* Claims about the calculators                                            *)
(***************************************************************************)

\* C11 (as claimed): for entry_price > 0, leverage > 0 and position_size > 0,
\* calculate_liquidation_price returns a price strictly below the entry price
\* for a LONG and strictly above it for a SHORT.
C11_LiquidationPriceOnLosingSide ==
    (/\ calc_obs.fn = "calculate_liquidation_price"
     /\ calc_obs.args[1] > 0
     /\ calc_obs.args[2] > 0
     /\ calc_obs.args[3].num > 0)
        => IF calc_obs.args[4] = "LONG"
           THEN calc_obs.out.num < calc_obs.args[1] * calc_obs.out.den
           ELSE calc_obs.out.num > calc_obs.args[1] * calc_obs.out.den

\* C12 (as claimed): a LONG entered at 100 with leverage 20 has a liquidation
\* price of 91.63; at a current price of 93.50 its distance to liquidation is
\* 2.04% and its risk level is HIGH.
C12_EndToEndScenario ==
    (/\ calc_obs.fn = "estimate_position"
     /\ calc_obs.args = <<1000, 20, Rat(1, 1), "LONG", 935>>)
        => /\ RoundRat(calc_obs.out.liquidation_price.num * 10,
                       calc_obs.out.liquidation_price.den) = 9163
           /\ RoundRat(calc_obs.out.distance_to_liquidation.num * 100,
                       calc_obs.out.distance_to_liquidation.den) = 204
           /\ calc_obs.out.risk_level = "HIGH"

\* C13: the risk level is CRITICAL for a distance <= 2, HIGH for 2 < distance <= 5,
\* MEDIUM for 5 < distance <= 10 and LOW above 10 (so 2.0 is CRITICAL, 2.0001
\* HIGH, 5.0 HIGH, 5.0001 MEDIUM, 10.0 MEDIUM, 10.0001 LOW), and two calls with
\* the same distance return the same level.
C13_RiskLevelBoundaries ==
    /\ calc_obs.fn = "risk_level" =>
           LET d == calc_obs.args[1]
               level == calc_obs.out
           IN  /\ level = "CRITICAL" <=> (~d.inf /\ d.num <= 2 * d.den)
               /\ level = "HIGH" <=> (~d.inf /\ 2 * d.den < d.num /\ d.num <= 5 * d.den)
               /\ level = "MEDIUM" <=> (~d.inf /\ 5 * d.den < d.num /\ d.num <= 10 * d.den)
               /\ level = "LOW" <=> (d.inf \/ d.num > 10 * d.den)
               /\ d = Finite(20000, 10000) => level = "CRITICAL"
               /\ d = Finite(20001, 10000) => level = "HIGH"
               /\ d = Finite(50000, 10000) => level = "HIGH"
               /\ d = Finite(50001, 10000) => level = "MEDIUM"
               /\ d = Finite(100000, 10000) => level = "MEDIUM"
               /\ d = Finite(100001, 10000) => level = "LOW"
    /\ (/\ calc_obs.fn = "risk_level"
        /\ calc_prev.fn = "risk_level"
        /\ calc_obs.args = calc_prev.args)
           => calc_obs.out = calc_prev.out

C13_Witness ==
    /\ calc_prev.fn = "risk_level"
    /\ calc_prev.calc = "LiquidPositionsMonitor"
    /\ calc_prev.args = <<Finite(20001, 10000)>>
    /\ calc_prev.out = "HIGH"
    /\ calc_obs.fn = "risk_level"
    /\ calc_obs.calc = "RealLiquidationsMonitor"
    /\ calc_obs.args = <<Finite(20001, 10000)>>
    /\ calc_obs.out = "HIGH"

\* C14 (as claimed): every distance function returns +infinity exactly when the
\* current price or the liquidation price is <= 0, and a value >= 0 otherwise.
C14_DistanceNonNegative ==
    calc_obs.fn = "calculate_distance_to_liquidation" =>
        /\ calc_obs.out.inf <=> (calc_obs.args[1] <= 0 \/ calc_obs.args[2].num <= 0)
        /\ ~calc_obs.out.inf => calc_obs.out.num >= 0

\* The value a calculator's distance is clamped at from below.
DistanceFloor(calc) ==
    IF calc = "RealLiquidationsMonitor" THEN Finite(1, 100) ELSE Finite(0, 1)

\* The current price is on the safe side of the liquidation price.
OnSafeSide(side, current_price, liquidation_price) ==
    /\ current_price > 0
    /\ IF side = "LONG"
       THEN current_price * liquidation_price.den >= liquidation_price.num
       ELSE current_price * liquidation_price.den <= liquidation_price.num

\* Two calls of one distance function for the same positive liquidation price
\* and side, the second at a price nearer the liquidation price, both on the
\* safe side.
MovedTowardLiquidation ==
    /\ calc_prev.fn = "calculate_distance_to_liquidation"
    /\ calc_obs.fn = "calculate_distance_to_liquidation"
    /\ calc_obs.calc = calc_prev.calc
    /\ calc_obs.args[2] = calc_prev.args[2]
    /\ calc_obs.args[3] = calc_prev.args[3]
    /\ calc_obs.args[2].num > 0
    /\ OnSafeSide(calc_obs.args[3], calc_prev.args[1], calc_obs.args[2])
    /\ OnSafeSide(calc_obs.args[3], calc_obs.args[1], calc_obs.args[2])
    /\ IF calc_obs.args[3] = "LONG" THEN calc_obs.args[1] < calc_prev.args[1]
       ELSE calc_obs.args[1] > calc_prev.args[1]

\* C15: for a fixed positive liquidation price and side, a current price nearer
\* the liquidation price on the safe side has a distance that is not larger, and
\* strictly smaller when the farther price's distance is above the floor.
C15_DistanceMonotone ==
    MovedTowardLiquidation =>
        /\ RatLeq(calc_obs.out, calc_prev.out)
        /\ RatLess(DistanceFloor(calc_obs.calc), calc_prev.out)
               => RatLess(calc_obs.out, calc_prev.out)

C15_Witness ==
    /\ MovedTowardLiquidation
    /\ calc_obs.calc = "RealLiquidationsMonitor"
    /\ calc_obs.args[3] = "LONG"
    /\ calc_prev.args[1] = 20400
    /\ calc_obs.args[1] = 20003
    /\ RatLess(calc_obs.out, calc_prev.out)

----------------------------------------------------------------------------
(***************************************************************************)
(* Claims about the asset maps, the lookups and close()                    *)
(***************************************************************************)

\* C16 (as claimed): once a monitor's load_market_metadata has completed, a
\* non-empty name -> id map is installed, also when the `meta` request failed
\* (every universe fed is non-empty, so only a failed request can leave it empty).
C16_FallbackInstalledOnFailure ==
    risk_pc = "loop" => DOMAIN risk_asset_map # {}

\* Every name maps to an id that maps back to it, every id to a name that maps
\* back to it, and the two maps have as many entries.
MutualInverses(asset_map, id_to_name) ==
    /\ \A n \in DOMAIN asset_map :
           asset_map[n] \in DOMAIN id_to_name /\ id_to_name[asset_map[n]] = n
    /\ \A i \in DOMAIN id_to_name :
           id_to_name[i] \in DOMAIN asset_map /\ asset_map[id_to_name[i]] = i
    /\ Cardinality(DOMAIN asset_map) = Cardinality(DOMAIN id_to_name)

\* C17 (as claimed): after any load_market_meta, successful or fallback, the
\* name -> id map and the id -> name map are mutual inverses.
C17_MapsAreMutualInverses ==
    api_meta \in {"loaded", "fallback"} => MutualInverses(api_asset_map, api_id_to_name)

\* C18 (as claimed): after a load_market_meta on a client that may already hold
\* a map, the maps hold exactly the entries of the universe just loaded, or
\* exactly the fallback entries when the request failed.
C18_ReloadReplacesWholesale ==
    /\ api_meta = "loaded" =>
           /\ api_asset_map = EnumeratedAssetMap(api_universe_data.universe)
           /\ api_id_to_name = EnumeratedIdToName(api_universe_data.universe)
    /\ api_meta = "fallback" =>
           /\ api_asset_map = EnumeratedAssetMap(FallbackUniverse)
           /\ api_id_to_name = EnumeratedIdToName(FallbackUniverse)

\* A lookup leaves both maps as they were.
LookupLeavesMaps ==
    [][api_lookup'.fn # "none" => UNCHANGED <<api_asset_map, api_id_to_name>>]_vars

\* C19 (as claimed): get_asset_id of a name that is not in the map and
\* get_asset_name of an id that is not in the map return None, and a lookup
\* does not change the maps.
C19_UnknownNameNotFound ==
    /\ [](/\ (api_lookup.fn = "get_asset_id"
              /\ api_lookup.arg \notin DOMAIN api_asset_map) => api_lookup.out.isNone
          /\ (api_lookup.fn = "get_asset_name"
              /\ api_lookup.arg \notin DOMAIN api_id_to_name) => api_lookup.out.isNone)
    /\ LookupLeavesMaps

\* C19 (amended): get_asset_id looks a name up by its upper case: it returns
\* None exactly when that is not a key of the map, and the key's id otherwise;
\* get_asset_name of an id that is not in the map returns None; a lookup does
\* not change the maps.
C19_LookupByUpperCase ==
    /\ [](/\ api_lookup.fn = "get_asset_id" =>
                 IF Upper(api_lookup.arg) \in DOMAIN api_asset_map
                 THEN /\ ~api_lookup.out.isNone
                      /\ api_lookup.out.val = api_asset_map[Upper(api_lookup.arg)]
                 ELSE api_lookup.out.isNone
          /\ (api_lookup.fn = "get_asset_name"
              /\ api_lookup.arg \notin DOMAIN api_id_to_name) => api_lookup.out.isNone)
    /\ LookupLeavesMaps

C19_Witness ==
    /\ api_meta = "loaded"
    /\ "BTC" \in DOMAIN api_asset_map
    /\ api_lookup.fn = "get_asset_id"
    /\ api_lookup.arg = "DOGE"
    /\ api_lookup.out.isNone

\* C20 (as claimed): once close() has returned, the client opens no new session
\* and sends no request.
C20_NoIoAfterClose ==
    [][api_session = "closed" => (api_session' = "closed" /\ api_pc' # "post")]_vars

----------------------------------------------------------------------------
(***************************************************************************)
(* Claims about the error paths of HyperliquidAPI                          *)
(***************************************************************************)

\* C27 (as claimed): a response whose body is not JSON is not retried: the POST
\* that met it is the last POST of its call.
C27_ProtocolErrorNotRetried ==
    \A i \in 1..Len(api_log) : api_log[i].outcome = "exception" => i = Len(api_log)

\* C30 (as claimed): a `meta` answer that is a JSON object, with or without a
\* universe and whatever its entries hold, never makes load_market_meta leave by
\* an exception.
C30_MissingKeysAreSoftFailures ==
    api_universe_data.body \in {"EMPTY_OBJECT", "DATA"} => api_meta # "raised"

----------------------------------------------------------------------------
(***************************************************************************)
(* Claims about the error paths of the polling monitors                    *)
(***************************************************************************)

\* C22: whatever goes wrong in a poll (the request fails, the answer is not a
\* list, an exception leaves check_recent_liquidations), the loop goes on and
\* starts another cycle: get_current_prices runs again.
C22_LoopSurvivesErrors == (lm_req.error # "none") ~> (lm_next = 1)

\* An exception has left a poll of the advanced script after a trade of its
\* page was processed, and the loop is back at its top.
C22_Witness ==
    /\ lm_variant = "advanced"
    /\ lm_req.error = "raised"
    /\ lm_next = 0
    /\ Len(lm_log) = 2
    /\ lm_log[1].outcome = "processed"
    /\ lm_log[2].outcome = "raised"

\* C28 (as claimed): a poll whose request failed has made as many POSTs as the
\* retry budget allows.
C28_TransportErrorRetriedToBudget ==
    lm_req.error = "request_failed" => lm_req.posts = MAX_RETRIES_DEFAULT

----------------------------------------------------------------------------
(***************************************************************************)
(* Claims about LargeTradesMonitor.run                                     *)
(***************************************************************************)

\* C21 (as claimed): when run has finished on a stop signal, close() has been
\* invoked: the session that run opened is closed.
C21_CloseBeforeRunEnds == ws_pc = "finished" => ws_session = "closed"

\* C23: on every connection, the first and each later one, the messages are read
\* only after exactly one subscribe message per tracked asset was sent, in the
\* order of the assets; a new connection starts with none sent.
C23_SubscribedBeforeReading ==
    /\ (ws_pc \in {"read", "handle"} \/ ws_last.msg # 0) => ws_subs = MONITORED_ASSETS
    /\ ws_last.ev = "connected" => ws_subs = <<>>
    /\ ws_pc = "subscribe" =>
           /\ Len(ws_subs) < Len(MONITORED_ASSETS)
           /\ ws_subs = SubSeq(MONITORED_ASSETS, 1, Len(ws_subs))

\* The last subscribe message of a connection made after trades were handled on
\* an earlier one has been sent, and the read loop is about to start.
C23_Witness ==
    /\ ws_pc = "read"
    /\ ws_last.ev = "subscribed"
    /\ lt_log # <<>>
    /\ ws_subs = MONITORED_ASSETS

\* C24 (as claimed): run is at the top of its loop, about to connect, only at
\* its start or right after the sleep of RETRY_DELAY_SECONDS.
C24_DelayBeforeReconnect == ws_pc = "connect" => ws_last.ev \in {"start", "slept"}

\* C25: a TEXT message that is not JSON changes nothing: the loop awaits the
\* next message of the same connection, with the same subscriptions, session and
\* dedup memory; and a JSON message read right after it yields the trades
\* _iter_trades_from_msg finds in it, which are then handled.
C25_BadJsonDiscarded ==
    /\ [][ws_last'.ev = "bad_json" =>
             /\ ws_pc = "read"
             /\ ws_pc' = "read"
             /\ UNCHANGED <<ws_session, ws_subs, ws_pending, ws_quiet, lt_seen, lt_log>>]_vars
    /\ []((ws_last.ev = "text" /\ ws_last.after = "bad_json") =>
             /\ ws_last.yielded = IterTradesFromMsg(WsMessages[ws_last.msg].obj)
             /\ ws_pending = ws_last.yielded
             /\ ws_pc = IF ws_pending = <<>> THEN "read" ELSE "handle")

\* With a key in the dedup memory, a message that is not JSON was read and the
\* message after it has yielded two trades.
C25_Witness ==
    /\ ws_last.ev = "text"
    /\ ws_last.after = "bad_json"
    /\ Len(ws_last.yielded) = 2
    /\ lt_seen # <<>>

\* C26 (as claimed): a JSON message yields exactly the trade objects it
\* contains: one trade or a list of trades under `data` or under `data.data`,
\* and nothing for any other shape.
C26_ExtractsContainedTrades ==
    ws_last.ev = "text" => ws_last.yielded = WsMessages[ws_last.msg].contains

\* C29 (as claimed): every error of the WebSocket loop (a message that is not
\* JSON, a failed connection or subscription, a failed read) is printed.
C29_EveryErrorLogged ==
    ws_last.ev \in {"bad_json", "connection_error", "read_error"} => ws_last.printed

----------------------------------------------------------------------------
(***************************************************************************)
(* Claims about the session statistics                                     *)
(***************************************************************************)

\* C31 (as claimed): every alert that monitor_risk_factors fires is recorded, so
\* the total that print_summary reports is at least the number of alerts the
\* last cycle fired.
C31_SummaryCountsFiredAlerts ==
    \A k \in AlertKeys : risk_obs[k].fired <= SummaryTotal

RECURSIVE SumSeq(_)
SumSeq(s) == IF s = <<>> THEN 0 ELSE Head(s) + SumSeq(Tail(s))

\* The per-asset and per-side breakdowns of self.stats, as sequences.
AssetCounts(stats) ==
    [i \in 1..Len(LIQ_MONITORED_ASSETS) |-> stats.by_asset[LIQ_MONITORED_ASSETS[i]].count]

AssetVolumes(stats) ==
    [i \in 1..Len(LIQ_MONITORED_ASSETS) |-> stats.by_asset[LIQ_MONITORED_ASSETS[i]].volume]

SideCounts(stats) == <<stats.by_side["LONG"].count, stats.by_side["SHORT"].count>>

SideVolumes(stats) == <<stats.by_side["LONG"].volume, stats.by_side["SHORT"].volume>>

\* The USD values of the liquidations a poll counted, in the order of the page.
CountedUsd(log) ==
    LET counted == SelectSeq(log, LAMBDA x : x.counted)
    IN  [i \in 1..Len(counted) |-> counted[i].usd]

\* v + values[1] + values[2] + ... in float arithmetic, left to right.
RECURSIVE FloatSumFrom(_, _)
FloatSumFrom(v, values) ==
    IF values = <<>> THEN v ELSE FloatSumFrom(FloatAdd(v, Head(values)), Tail(values))

\* No counter of the statistics is smaller in s2 than in s1.
StatsNotBelow(s2, s1) ==
    /\ s2.total_liquidations >= s1.total_liquidations
    /\ s2.total_volume_usd >= s1.total_volume_usd
    /\ \A a \in Range(LIQ_MONITORED_ASSETS) :
           /\ s2.by_asset[a].count >= s1.by_asset[a].count
           /\ s2.by_asset[a].volume >= s1.by_asset[a].volume
    /\ \A t \in {"LONG", "SHORT"} :
           /\ s2.by_side[t].count >= s1.by_side[t].count
           /\ s2.by_side[t].volume >= s1.by_side[t].volume

\* In the advanced script, the trades a poll counted are those that passed the
\* watermark with a USD value at or above the threshold.
CountedAreQualifying ==
    lm_variant = "advanced" =>
        \A i \in 1..Len(lm_log) :
            lm_log[i].counted <=>
                (lm_log[i].outcome = "processed" /\ lm_log[i].usd >= LIQUIDATION_THRESHOLD_USD)

\* The counts of the statistics agree: the total is the sum per asset and the
\* sum per side.
CountsAgree ==
    /\ lm_stats.total_liquidations = SumSeq(AssetCounts(lm_stats))
    /\ lm_stats.total_liquidations = SumSeq(SideCounts(lm_stats))

----------------------------------------------------------------------------
(***************************************************************************)
(* Claims about the calculators of position estimates                      *)
(***************************************************************************)

\* The last two calls are calculate_pnl on the same prices and size, one LONG
\* and one SHORT.
OppositePnlCalls ==
    /\ calc_obs.fn = "calculate_pnl"
    /\ calc_prev.fn = "calculate_pnl"
    /\ \A i \in 1..3 : calc_obs.args[i] = calc_prev.args[i]
    /\ Upper(calc_obs.args[4]) # Upper(calc_prev.args[4])

\* C33: for entry_price > 0 and position_size > 0, the LONG PnL, in USD and in
\* percent, is positive exactly when current_price > entry_price, the SHORT PnL
\* exactly when current_price < entry_price, and on the same prices and size the
\* SHORT PnL is the negation of the LONG PnL.
C33_PnlSignConvention ==
    calc_obs.fn = "calculate_pnl" =>
        LET entry_price == calc_obs.args[1]
            current_price == calc_obs.args[2]
            position_size == calc_obs.args[3]
            long == Upper(calc_obs.args[4]) = "LONG"
            out == calc_obs.out
            profit == IF long THEN current_price > entry_price
                      ELSE current_price < entry_price
        IN  (entry_price > 0 /\ position_size > 0) =>
                /\ out.pnl_usd > 0 <=> profit
                /\ out.pnl_pct.num > 0 <=> profit
                /\ OppositePnlCalls =>
                       /\ out.pnl_usd = -calc_prev.out.pnl_usd
                       /\ out.pnl_pct.num * calc_prev.out.pnl_pct.den =
                              -calc_prev.out.pnl_pct.num * out.pnl_pct.den

\* A SHORT in profit, computed right after the LONG on the same prices and
\* size, which is at a loss.
C33_Witness ==
    /\ OppositePnlCalls
    /\ calc_obs.args[4] = "SHORT"
    /\ calc_obs.args[2] < calc_obs.args[1]
    /\ calc_obs.out.pnl_usd > 0
    /\ calc_prev.out.pnl_usd < 0

----------------------------------------------------------------------------
(***************************************************************************)
(* Claims about the poll cycle and the watermark of the liquidation        *)
(* monitors                                                                *)
(***************************************************************************)

\* C34 (as claimed): when the poll of an asset that is not the last of the
\* cycle goes wrong (the request fails, or a px or sz does not convert), the
\* cycle goes on with the poll of the next asset.
C34_FailureSkipsOnlyThatAsset ==
    [][(/\ lm_next \in 1..(Len(LIQ_MONITORED_ASSETS) - 1)
        /\ lm_req'.error \in {"request_failed", "raised"}) =>
          lm_next' = lm_next + 1]_vars

\* C35: the liquidations of an asset that the monitor processes have strictly
\* increasing timestamps: each is newer than the watermark it met, which is at
\* least the timestamp of every liquidation processed before it, in the same
\* poll or in an earlier one, whatever the order of the page.
C35_ProcessedStrictlyIncreasing ==
    /\ [](\A i \in 1..Len(lm_log) :
              lm_log[i].outcome = "processed" =>
                  /\ lm_log[i].time > lm_log[i].before
                  /\ lm_log[i].time <= lm_last_processed_time[lm_log[i].asset]
                  /\ \A j \in 1..(i - 1) :
                         lm_log[j].outcome = "processed" => lm_log[j].time < lm_log[i].time)
    /\ [][lm_next # 0 =>
             \A i \in 1..Len(lm_log') :
                 (/\ lm_log'[i].outcome = "processed"
                  /\ lm_log'[i].asset \in DOMAIN lm_last_processed_time) =>
                     lm_log'[i].time > lm_last_processed_time[lm_log'[i].asset]]_vars

\* A page in descending order met a watermark of 1: its first trade, of time 3,
\* was processed and its second, of time 2, was not.
C35_Witness ==
    /\ Len(lm_log) = 2
    /\ lm_log[1].outcome = "processed"
    /\ lm_log[1].before = 1
    /\ lm_log[1].time = 3
    /\ lm_log[2].time = 2
    /\ lm_log[2].outcome # "processed"
    /\ lm_req.error = "none"

\* C36 (as claimed): every liquidation trade of a page whose timestamp is
\* greater than the asset's watermark as it stood when the poll started is
\* processed in that poll; a trade that the page repeats counts once, and a trade
\* whose px or sz does not convert is left aside.
C36_NoNewLiquidationLost ==
    \A i \in 1..Len(lm_log) :
        (/\ lm_log[1].known
         /\ lm_log[i].time > lm_log[1].before
         /\ lm_log[i].usd > 0
         /\ \A j \in 1..(i - 1) :
                <<lm_log[j].time, lm_log[j].usd>> # <<lm_log[i].time, lm_log[i].usd>>) =>
            lm_log[i].outcome = "processed"

\* C37: in the advanced script, the first liquidation trade of an asset that has
\* no watermark yet only seeds the watermark with its timestamp: it is neither
\* displayed nor counted, and what the rest of the page reports is newer than it.
C37_FirstTradeOnlySeeds ==
    [][(/\ lm_variant = "advanced"
        /\ lm_next # 0
        /\ LIQ_MONITORED_ASSETS[lm_next] \notin DOMAIN lm_last_processed_time
        /\ lm_log' # <<>>) =>
          /\ lm_log'[1].outcome = "seeded"
          /\ ~lm_log'[1].displayed
          /\ ~lm_log'[1].counted
          /\ lm_log'[1].after = lm_log'[1].time
          /\ lm_stats'.total_liquidations =
                 lm_stats.total_liquidations + Len(CountedUsd(Tail(lm_log')))
          /\ \A j \in 2..Len(lm_log') :
                 lm_log'[j].displayed => lm_log'[j].time > lm_log'[1].time]_vars

\* The first liquidation of BTC, worth 100000 USD, seeded the watermark and the
\* trade after it on the page, newer, was counted.
C37_Witness ==
    /\ lm_variant = "advanced"
    /\ Len(lm_log) = 2
    /\ lm_log[1].outcome = "seeded"
    /\ lm_log[1].usd >= LIQUIDATION_THRESHOLD_USD
    /\ lm_log[2].counted
    /\ lm_stats.total_liquidations = 1

----------------------------------------------------------------------------
(***************************************************************************)
(* Claims about the LIQUIDATION_RISK factor of PositionsAtRiskMonitor      *)
(***************************************************************************)

\* The asset is in the loaded universe with a max leverage at or above the
\* risk threshold.
HighLeverageLoaded(asset) ==
    /\ asset \in DOMAIN risk_asset_map
    /\ risk_asset_map[asset] \in DOMAIN risk_margin_data
    /\ risk_margin_data[risk_asset_map[asset]].maxLeverage >= MARGIN_RISK_THRESHOLD * 10

\* A cycle analyses the asset, loaded with high leverage, on an open interest
\* of which 5% is worth at least $100k.
LargePositionCycle(asset) ==
    /\ risk_pc = "loop"
    /\ HighLeverageLoaded(asset)
    /\ risk_oi_history'[asset] # risk_oi_history[asset]
    /\ Last(risk_oi_history'[asset]) * LARGE_POSITION_THRESHOLD_PCT >= 100000 * 100

\* Some LIQUIDATION_RISK factor came out of the last cycle.
LiquidationRiskEmitted ==
    \E a \in Range(MONITORED_ASSETS) : risk_obs[AlertKey(a, "LIQUIDATION_RISK")].high

\* C38 (as claimed): after a successful metadata load a LIQUIDATION_RISK factor
\* can come out: when cycle after cycle analyses an asset that has loaded margin
\* data with max leverage at or above the risk threshold and 5% of its open
\* interest worth at least $100k, some cycle emits the factor.
C38_LiquidationRiskReachable ==
    (\E a \in Range(MONITORED_ASSETS) : []<><<LargePositionCycle(a)>>_vars)
        => <>LiquidationRiskEmitted

\* No cycle ever emits a LIQUIDATION_RISK factor.
LiquidationRiskNeverEmitted == ~LiquidationRiskEmitted

----------------------------------------------------------------------------
(***************************************************************************)
(* Claims about the round trip of the name and id lookups                  *)
(***************************************************************************)

\* C39 (as claimed): on a loaded map, get_asset_id(get_asset_name(id)) is id
\* for every id of the map, and get_asset_name(get_asset_id(name)) is name for
\* every name of the map, whatever the letter case of the name.
C39_LookupRoundTrips ==
    api_meta = "loaded" =>
        /\ \A id \in DOMAIN api_id_to_name :
               /\ ~AssetNameOf(id).isNone
               /\ ~AssetIdOf(AssetNameOf(id).val).isNone
               /\ AssetIdOf(AssetNameOf(id).val).val = id
        /\ \A name \in DOMAIN api_asset_map :
               /\ ~AssetIdOf(name).isNone
               /\ ~AssetNameOf(AssetIdOf(name).val).isNone
               /\ AssetNameOf(AssetIdOf(name).val).val = name

----------------------------------------------------------------------------
(***************************************************************************)
(* Claims about the distance of a SHORT position                           *)
(***************************************************************************)

\* C40 (as claimed): for a SHORT whose current price is positive and below its
\* positive liquidation price, the calculators of the position estimates return
\* (liquidation_price - current_price) / current_price * 100, which is strictly
\* positive; and the estimate of a SHORT that is more than 10% away from its
\* liquidation price is not CRITICAL.
C40_ShortDistance ==
    /\ (/\ calc_obs.fn = "calculate_distance_to_liquidation"
        /\ calc_obs.calc \in {"LiquidationRiskCalculator", "RealLiquidationsMonitor"}
        /\ calc_obs.args[3] = "SHORT"
        /\ calc_obs.args[1] > 0
        /\ calc_obs.args[1] * calc_obs.args[2].den < calc_obs.args[2].num) =>
           LET current_price == calc_obs.args[1]
               liquidation_price == calc_obs.args[2]
               out == calc_obs.out
           IN  /\ ~out.inf
               /\ out.num > 0
               /\ out.num * (current_price * liquidation_price.den) =
                      (liquidation_price.num - current_price * liquidation_price.den)
                          * 100 * out.den
    /\ (/\ calc_obs.fn = "estimate_position"
        /\ calc_obs.args[4] = "SHORT"
        /\ calc_obs.args[5] > 0
        /\ calc_obs.out.liquidation_price.num * 100 >=
               110 * calc_obs.args[5] * calc_obs.out.liquidation_price.den) =>
           calc_obs.out.risk_level # "CRITICAL"

====
